---------------------------- MODULE Spec2Model ----------------------------
(***************************************************************************)
(* Model of the authentication / session subsystem of the backend.         *)
(*                                                                         *)
(* Part 1: tokenStorage (src/backend/auth.go): the in-memory map of OAuth   *)
(* tokens guarded by a sync.RWMutex, its startup load from Elasticsearch,   *)
(* setGoogle / putToken and getGoogle, run by concurrent request workers.   *)
(* Specification: Spec.                                                    *)
(*                                                                         *)
(* Part 2: secureCookies (src/backend/securecookies.go): the list of        *)
(* securecookie codecs, Encode and Decode, key rotation and the age of      *)
(* tokens.  Specification: CodecSpec.                                       *)
(*                                                                         *)
(* Part 3: identity tokens (idTokenParser of src/backend/auth.go).          *)
(* Specification: ParseSpec.                                               *)
(*                                                                         *)
(* Part 4: the OAuth state (generateOAuthState, validateOAuthState) and the *)
(* callback that validates it.  Specification: StateSpec.                   *)
(*                                                                         *)
(* Part 5: the HTTP routes of main and their wrappers getAuthMiddleware and *)
(* basicAuthMiddleware.  Specification: HttpSpec.                           *)
(*                                                                         *)
(* Part 6: the consent flow of a client that sends only what the server     *)
(* gave it (HonestSpec), and the OAuth configuration oauth2ConfigForURL     *)
(* builds for a request (ConfigSpec).                                       *)
(***************************************************************************)
EXTENDS Integers, Sequences, FiniteSets, TLC

(***************************************************************************)
(* Bounds of the model.                                                    *)
(***************************************************************************)
MaxCalls == 2      \* setGoogle/getGoogle calls the server is asked to serve
MaxRestarts == 1   \* restarts of the server process
MaxKeys == 2       \* keys in a configured list
MaxSealed == 1     \* tokens Encode returns
MaxHeader == 3     \* chunks of an Authorization header
MaxCookies == 2    \* credentials cookies a client holds
MaxTicks == 2      \* advances of the clock

\* The request workers (goroutines of the HTTP server) and the user IDs.
Procs == {1, 2}
Ids == {"u1", "u2"}
NoId == ""

\* time.Now() is a logical clock: the number of requests started so far.
Times == 0..MaxCalls

AccessTokens == {"a1", "a2"}
RefreshTokens == {"r1", "r2"}

(***************************************************************************)
(* oauth2.Token, with the fields the program reads or sets.  A *Token is a  *)
(* sequence: << >> is nil, <<t>> points to t.                               *)
(***************************************************************************)
Token(a, r) == [AccessToken |-> a, TokenType |-> "Bearer", RefreshToken |-> r]

\* Tokens a token endpoint answers with: the access token is always present,
\* the refresh token is optional.
ExchangedTokens == {Token(a, r) : a \in AccessTokens, r \in RefreshTokens \cup {""}}

Nil == << >>
Ptr(t) == <<t>>
Deref(p) == p[1]

(***************************************************************************)
(* Errors.                                                                 *)
(***************************************************************************)
NoErr == "nil"
errUnauthorized == "unauthorized"
ErrEmptyRefresh == "empty refresh token for user ID"
ErrSaving == "while saving token for user ID"
ErrUpdateStatus == "updating token failed"
ErrExchange == "oauth2: cannot fetch token"
ErrDecode == "json decode error"
ErrInitFailed == "failed to init token storage"

StoreErrors == {ErrSaving, ErrUpdateStatus}

VARIABLES
    phase,         \* "start" | "serving" | "fatal": position of main
    client,        \* TRUE iff an Elasticsearch client is configured (s.client != nil)
    store,         \* the app-sessions index: document id -> document
    googleTokens,  \* s.googleTokens: map[string]*oauth2.Token
    mu,            \* s.mu: [writer: holder of the write lock or 0, readers: holders of the read lock]
    initErr,       \* error returned by the last newTokenStorage
    searchOutcome, \* how the store answered the Search of the last init
    pc,            \* position of each worker
    op,            \* the API call a worker is serving: "none" | "set" | "get"
    id,            \* the id argument of the call
    arg,           \* the token argument of the setGoogle in progress
    token,         \* getGoogle's local token (the cached pointer it read)
    newToken,      \* getGoogle's local newToken
    req,           \* the Update request a worker has in flight (<< >> if none)
    result,        \* what the call returned: [err, token]
    calls,         \* number of calls started so far; also the clock
    restarts,      \* number of restarts so far
    hist,          \* per call: what the call has done so far (for stating the claims)
    lastWriter,    \* per id: the worker whose running call wrote the cache entry last (0: none)
    lastApplied,   \* per id: the worker whose running call's Update the store applied last (0: none)
    fresh          \* TRUE from the start of the process until the first setGoogle is called

vars == <<phase, client, store, googleTokens, mu, initErr, searchOutcome, pc, op, id,
          arg, token, newToken, req, result, calls, restarts, hist, lastWriter, lastApplied, fresh>>

boot == <<phase, client, initErr, searchOutcome, restarts, fresh>>

\* Parts 2 to 5 (cookies, tokens, the OAuth state, routes): the codec list, the clock and what
\* the server has handed to clients.
VARIABLES
    secureCookies, \* the secureCookies of main: the list of codecs, each known by its key
    now,           \* time.Now() in seconds, as securecookie reads it
    sealed,        \* the tokens Encode has returned so far, with the key list of the time
    call,          \* the last Encode or Decode call and what it returned
    issued,        \* the (state, cookie) pairs generateOAuthState has returned so far
    exchange,      \* the last request to validateOAuthState and what it returned
    validated,     \* the request validateOAuthState accepted last, if any
    request,       \* the call or HTTP request being served
    response,      \* what the server answered to it
    googleConfig   \* the OAuth configuration: main's variable and the field of tokens

served ==
    <<secureCookies, now, sealed, call, issued, exchange, validated, request,
      response>>

web ==
    <<secureCookies, now, sealed, call, issued, exchange, validated, request,
      response, googleConfig>>

(***************************************************************************)
(* Documents of the index.  A document is a function from field names.     *)
(***************************************************************************)
\* A document some other writer put in the index: it has no "google" object.
ForeignDoc(i) == [user_id |-> i]

\* tokenDocument: what init decodes from a hit's _source.
DocRefreshToken(d) == IF "google" \in DOMAIN d THEN d["google"].refresh_token ELSE ""

\* Mutant of TokenDoc: the whole token is persisted.
TokenDocWithAccess(typ, ts, t) ==
    (typ :> [issued_at |-> ts, refresh_token |-> t.RefreshToken,
             access_token |-> t.AccessToken])

\* The "doc" of the update body built by putToken.
TokenDoc(typ, ts, t) ==
    (typ :> [issued_at |-> ts, refresh_token |-> t.RefreshToken])

UpdateBody(typ, ts, t) == [doc_as_upsert |-> TRUE, doc |-> TokenDoc(typ, ts, t)]

\* Elasticsearch's update with doc_as_upsert: create the document from the
\* partial document, or merge the partial document into the existing one.
Upsert(s, i, body) ==
    IF i \in DOMAIN s
    THEN [s EXCEPT ![i] = [f \in DOMAIN s[i] \cup DOMAIN body.doc |->
                              IF f \in DOMAIN body.doc THEN body.doc[f] ELSE s[i][f]]]
    ELSE [j \in DOMAIN s \cup {i} |-> IF j = i THEN body.doc ELSE s[j]]

\* Go map assignment m[k] = v.
MapSet(m, k, v) == [j \in DOMAIN m \cup {k} |-> IF j = k THEN v ELSE m[j]]

\* Go map lookup m[k]: nil when the key is absent.
MapGet(m, k) == IF k \in DOMAIN m THEN m[k] ELSE Nil

EmptyMap == [j \in {} |-> Nil]

\* What a call has done so far: cache writes, token-endpoint calls started,
\* Update requests sent.
NoHist == [cache |-> 0, exchange |-> 0, upsert |-> 0]

NoResult == [err |-> NoErr, token |-> Nil]

\* The Search of init asks for at most this many hits.
SearchSize == 1000

\* What the index holds when the server first starts: nothing, a document
\* without tokens, or a refresh token an earlier deployment saved.
InitialStores ==
    {EmptyMap,
     [j \in {"u1"} |-> ForeignDoc(j)],
     [j \in {"u1"} |-> TokenDoc("google", 0, Token("", "r1"))]}

TokenInit ==
    /\ phase = "start"
    /\ client \in BOOLEAN
    /\ store \in InitialStores
    /\ googleTokens = EmptyMap
    /\ mu = [writer |-> 0, readers |-> {}]
    /\ initErr = NoErr
    /\ searchOutcome = "none"
    /\ pc = [p \in Procs |-> "idle"]
    /\ op = [p \in Procs |-> "none"]
    /\ id = [p \in Procs |-> NoId]
    /\ arg = [p \in Procs |-> Nil]
    /\ token = [p \in Procs |-> Nil]
    /\ newToken = [p \in Procs |-> Nil]
    /\ req = [p \in Procs |-> << >>]
    /\ result = [p \in Procs |-> NoResult]
    /\ calls = 0
    /\ restarts = 0
    /\ hist = [p \in Procs |-> NoHist]
    /\ lastWriter = [i \in Ids |-> 0]
    /\ lastApplied = [i \in Ids |-> 0]
    /\ fresh = TRUE

\* Strings of part 2: plain text, and the fields a state or a sealed token
\* adds to it.
NoKey == ""

Plain(text) ==
    [kind |-> "plain", key |-> NoKey, date |-> 0, inner |-> "", text |-> text,
     nonce |-> "", data |-> {}]

EmptyString == Plain("")

NoCall ==
    [fn |-> "none", in |-> EmptyString, keys |-> << >>, at |-> 0,
     out |-> EmptyString, err |-> NoErr]

\* A Go map[string]string: nil, or a set of <<key, value>> entries.
NilMap == [nil |-> TRUE, pairs |-> {}]
MakeMap(pairs) == [nil |-> FALSE, pairs |-> pairs]

NoExchange ==
    [called |-> FALSE, state |-> EmptyString, cookie |-> << >>, replay |-> FALSE,
     data |-> NilMap, err |-> NoErr, status |-> 0]

\* No request is being served; nothing was answered.
NoRequest == [route |-> "none"]
NoResponse == [status |-> 0]

googleClientID == "client-id"

\* newGoogleOAuthConfig, with the endpoint left out.
newGoogleOAuthConfig(clientID, clientSecret) ==
    [ClientID |-> clientID, ClientSecret |-> clientSecret,
     RedirectURL |-> "/api/oauth/google", Scopes |-> <<"openid", "email", "profile">>]

\* main builds the configuration once and hands a copy to newTokenStorage.
StartConfig ==
    LET cfg == newGoogleOAuthConfig(googleClientID, "client-secret")
    IN [main |-> cfg, tokens |-> cfg]

\* What oauth2ConfigForURL reads of a request: the Host, the two forwarding
\* headers ("": not set) and whether the connection used TLS.
HttpRequests ==
    [Host : {"app.internal"}, XForwardedHost : {"", "app.example.com"},
     XForwardedProto : {"", "http", "https"}, TLS : BOOLEAN]
DirectRequest ==
    [Host |-> "app.internal", XForwardedHost |-> "", XForwardedProto |-> "", TLS |-> FALSE]

\* url.URL.String() of a URL with a scheme, a host and a path that begins
\* with a slash.
URLString(url) == url.Scheme \o "://" \o url.Host \o url.Path

\* The URL oauth2ConfigForURL builds for the request r and the path.
RedirectURLFor(path, r) ==
    LET url == [Scheme |-> "http", Host |-> r.Host, Path |-> path]
        withHost == IF r.XForwardedHost # "" THEN [url EXCEPT !.Host = r.XForwardedHost]
                    ELSE url
        withScheme == IF r.XForwardedProto # ""
                      THEN [withHost EXCEPT !.Scheme = r.XForwardedProto]
                      ELSE IF r.TLS THEN [withHost EXCEPT !.Scheme = "https"]
                      ELSE withHost
    IN URLString(withScheme)

\* A variant of oauth2ConfigForURL that works on the caller's configuration
\* (cfg passed as a pointer).
oauth2ConfigForURLShared(cfg, r) ==
    LET changed == [cfg EXCEPT !.RedirectURL = RedirectURLFor(cfg.RedirectURL, r)]
    IN [cfg |-> changed, copy |-> changed]

\* oauth2ConfigForURL(cfg, r): cfg is passed by value, so the assignment to
\* cfg.RedirectURL changes the copy; cfg is the caller's configuration after
\* the call, copy the configuration the returned pointer refers to.
oauth2ConfigForURL(cfg, r) ==
    [cfg |-> cfg, copy |-> [cfg EXCEPT !.RedirectURL = RedirectURLFor(cfg.RedirectURL, r)]]

\* Part 2 at rest: no codec, nothing handed out, no call made.
WebIdle ==
    /\ secureCookies = << >>
    /\ now = 0
    /\ sealed = {}
    /\ call = NoCall
    /\ issued = {}
    /\ exchange = NoExchange
    /\ validated = {}
    /\ request = NoRequest
    /\ response = NoResponse
    /\ googleConfig = StartConfig

Init == TokenInit /\ WebIdle

\* Part 1 at rest: the server of a deployment without Elasticsearch, before
\* newTokenStorage.
TokenIdle == TokenInit /\ ~client /\ store = EmptyMap


(***************************************************************************)
(* Startup: newTokenStorage and init.                                      *)
(***************************************************************************)
SearchOutcomes == {"unreachable", "error_status", "undecodable", "ok"}

Min(a, b) == IF a < b THEN a ELSE b

\* The hits a successful Search can answer with: at most SearchSize documents.
Hits(s) == {H \in SUBSET DOMAIN s : Cardinality(H) = Min(Cardinality(DOMAIN s), SearchSize)}

\* Mutant of the loop: every hit is loaded, with or without a refresh token.
LoadHitsAll(s, hits) ==
    [i \in hits |-> Ptr(Token("", DocRefreshToken(s[i])))]

\* The loop of init over the hits: only hits with a refresh token are loaded.
LoadHits(s, hits) ==
    [i \in {h \in hits : DocRefreshToken(s[h]) # ""} |->
        Ptr(Token("", DocRefreshToken(s[i])))]

\* Mutant of init: a failed Search is returned as an error.
tokenStorage_initStrict(cl, s, out, hits) ==
    IF ~cl THEN [err |-> NoErr, tokens |-> EmptyMap]
    ELSE IF out = "error_status" THEN [err |-> NoErr, tokens |-> EmptyMap]
    ELSE IF out \in {"unreachable", "undecodable"} THEN [err |-> ErrDecode, tokens |-> EmptyMap]
    ELSE [err |-> NoErr, tokens |-> LoadHits(s, hits)]

\* init: the error it returns and the map it leaves, given how the store
\* answers the Search.
tokenStorage_init(cl, s, out, hits) ==
    IF ~cl THEN [err |-> NoErr, tokens |-> EmptyMap]
    ELSE IF out \in {"unreachable", "error_status"} THEN [err |-> NoErr, tokens |-> EmptyMap]
    ELSE IF out = "undecodable" THEN [err |-> ErrDecode, tokens |-> EmptyMap]
    ELSE [err |-> NoErr, tokens |-> LoadHits(s, hits)]

\* newTokenStorage as main calls it: an error is fatal (logger.Fatal).
newTokenStorage ==
    /\ phase = "start"
    /\ \E out \in (IF client THEN SearchOutcomes ELSE {"none"}), hits \in Hits(store) :
          LET r == tokenStorage_init(client, store, out, hits) IN
          /\ searchOutcome' = out
          /\ googleTokens' = r.tokens
          /\ initErr' = IF r.err = NoErr THEN NoErr ELSE ErrInitFailed
          /\ phase' = IF r.err = NoErr THEN "serving" ELSE "fatal"
    /\ UNCHANGED <<client, store, mu, pc, op, id, arg, token, newToken, req, result,
                   calls, restarts, hist, lastWriter, lastApplied, fresh>>
    /\ UNCHANGED web

(***************************************************************************)
(* Workers.                                                                *)
(***************************************************************************)
Unlocked == [writer |-> 0, readers |-> {}]

\* A call returns: its result becomes visible at "done".
Return(p, e, t) ==
    /\ pc' = [pc EXCEPT ![p] = "done"]
    /\ result' = [result EXCEPT ![p] = [err |-> e, token |-> t]]

\* setGoogle returns e: to the caller of the API, or into getGoogle (line 360).
SetReturn(p, e) ==
    IF op[p] = "get" /\ e = NoErr THEN Return(p, NoErr, newToken[p]) ELSE Return(p, e, Nil)

\* A request is handed to the first free worker.
FirstIdle(p) == pc[p] = "idle" /\ \A q \in Procs : q < p => pc[q] # "idle"

CallSet(p, i, t) ==
    /\ phase = "serving" /\ FirstIdle(p) /\ calls < MaxCalls
    /\ calls' = calls + 1
    /\ op' = [op EXCEPT ![p] = "set"]
    /\ id' = [id EXCEPT ![p] = i]
    /\ arg' = [arg EXCEPT ![p] = Ptr(t)]
    /\ pc' = [pc EXCEPT ![p] = "set_lock"]
    /\ fresh' = FALSE
    /\ UNCHANGED <<phase, client, initErr, searchOutcome, restarts, store, googleTokens, mu,
                   token, newToken, req, result, hist, lastWriter, lastApplied>>
    /\ UNCHANGED web

CallGet(p, i) ==
    /\ phase = "serving" /\ FirstIdle(p) /\ calls < MaxCalls
    /\ calls' = calls + 1
    /\ op' = [op EXCEPT ![p] = "get"]
    /\ id' = [id EXCEPT ![p] = i]
    /\ pc' = [pc EXCEPT ![p] = "get_rlock"]
    /\ UNCHANGED <<boot, store, googleTokens, mu, arg, token, newToken, req, result, hist, lastWriter, lastApplied>>
    /\ UNCHANGED web

\* setGoogle: s.mu.Lock()
SetLock(p) ==
    /\ pc[p] = "set_lock"
    /\ mu = Unlocked
    /\ mu' = [mu EXCEPT !.writer = p]
    /\ pc' = [pc EXCEPT ![p] = "set_write"]
    /\ UNCHANGED <<boot, store, googleTokens, op, id, arg, token, newToken, req, result,
                   calls, hist, lastWriter, lastApplied>>
    /\ UNCHANGED web

\* Mutant of SetWrite: the unlock is deferred to the return of setGoogle.
SetWriteHoldingLock(p) ==
    /\ pc[p] = "set_write"
    /\ googleTokens' = MapSet(googleTokens, id[p], arg[p])
    /\ hist' = [hist EXCEPT ![p].cache = @ + 1]
    /\ lastWriter' = [lastWriter EXCEPT ![id[p]] = p]
    /\ UNCHANGED lastApplied
    /\ pc' = [pc EXCEPT ![p] = "set_put"]
    /\ UNCHANGED <<boot, store, mu, op, id, arg, token, newToken, req, result, calls>>
    /\ UNCHANGED web

\* setGoogle: s.googleTokens[id] = token; s.mu.Unlock()
SetWrite(p) ==
    /\ pc[p] = "set_write"
    /\ googleTokens' = MapSet(googleTokens, id[p], arg[p])
    /\ mu' = [mu EXCEPT !.writer = 0]
    /\ hist' = [hist EXCEPT ![p].cache = @ + 1]
    /\ lastWriter' = [lastWriter EXCEPT ![id[p]] = p]
    /\ UNCHANGED lastApplied
    /\ pc' = [pc EXCEPT ![p] = "set_put"]
    /\ UNCHANGED <<boot, store, op, id, arg, token, newToken, req, result, calls>>
    /\ UNCHANGED web

\* putToken up to the Update request.
UpdateRequest(i, ts, t) ==
    [index |-> "app-sessions", id |-> i, body |-> UpdateBody("google", ts, t), applied |-> FALSE]

\* Mutant of SetPut: putToken does not look at the refresh token.
SetPutNoCheck(p) ==
    /\ pc[p] = "set_put"
    /\ IF ~client
       THEN SetReturn(p, NoErr) /\ UNCHANGED <<req, hist>>
       ELSE /\ req' = [req EXCEPT ![p] = <<UpdateRequest(id[p], calls, Deref(arg[p]))>>]
            /\ hist' = [hist EXCEPT ![p].upsert = @ + 1]
            /\ pc' = [pc EXCEPT ![p] = "put_wait"]
            /\ UNCHANGED result
    /\ UNCHANGED <<boot, store, googleTokens, mu, op, id, arg, token, newToken, calls, lastWriter, lastApplied>>
    /\ UNCHANGED web

\* setGoogle after the unlock: return nil without a client, else putToken,
\* which refuses an empty refresh token and otherwise sends the Update.
SetPut(p) ==
    /\ pc[p] = "set_put"
    /\ IF ~client
       THEN SetReturn(p, NoErr) /\ UNCHANGED <<req, hist>>
       ELSE IF Deref(arg[p]).RefreshToken = ""
       THEN SetReturn(p, ErrEmptyRefresh) /\ UNCHANGED <<req, hist>>
       ELSE /\ req' = [req EXCEPT ![p] = <<UpdateRequest(id[p], calls, Deref(arg[p]))>>]
            /\ hist' = [hist EXCEPT ![p].upsert = @ + 1]
            /\ pc' = [pc EXCEPT ![p] = "put_wait"]
            /\ UNCHANGED result
    /\ UNCHANGED <<boot, store, googleTokens, mu, op, id, arg, token, newToken, calls, lastWriter, lastApplied>>
    /\ UNCHANGED web

\* Elasticsearch applies an Update request it received.
StoreApply(p) ==
    /\ pc[p] = "put_wait"
    /\ ~req[p][1].applied
    /\ store' = Upsert(store, req[p][1].id, req[p][1].body)
    /\ req' = [req EXCEPT ![p] = <<[@[1] EXCEPT !.applied = TRUE]>>]
    /\ UNCHANGED <<boot, googleTokens, mu, pc, op, id, arg, token, newToken, result,
                   calls, hist, lastWriter>>
    /\ lastApplied' = [lastApplied EXCEPT ![req[p][1].id] = p]
    /\ UNCHANGED web

\* The error putToken returns for the way the Update ended: the transport
\* fails (before or after the store applied the request), the store answers
\* with an error status, or it answers with success.
UpdateOutcomes(applied) == IF applied THEN {"ok", "transport_error"}
                           ELSE {"error_status", "transport_error"}

putTokenErr(out) ==
    CASE out = "transport_error" -> ErrSaving
      [] out = "error_status" -> ErrUpdateStatus
      [] OTHER -> NoErr

\* Mutant of PutReply: a failed persistent write removes the cache entry again.
PutReplyRollback(p) ==
    /\ pc[p] = "put_wait"
    /\ \E out \in UpdateOutcomes(req[p][1].applied) :
          /\ SetReturn(p, putTokenErr(out))
          /\ googleTokens' = IF putTokenErr(out) = NoErr THEN googleTokens
                             ELSE [j \in DOMAIN googleTokens \ {id[p]} |-> googleTokens[j]]
    /\ req' = [req EXCEPT ![p] = << >>]
    /\ UNCHANGED <<boot, store, mu, op, id, arg, token, newToken, calls, hist, lastWriter, lastApplied>>
    /\ UNCHANGED web

\* putToken: s.client.Update returns.
PutReply(p) ==
    /\ pc[p] = "put_wait"
    /\ \E out \in UpdateOutcomes(req[p][1].applied) : SetReturn(p, putTokenErr(out))
    /\ req' = [req EXCEPT ![p] = << >>]
    /\ UNCHANGED <<boot, store, googleTokens, mu, op, id, arg, token, newToken,
                   calls, hist, lastWriter, lastApplied>>
    /\ UNCHANGED web

\* getGoogle: s.mu.RLock()
GetRLock(p) ==
    /\ pc[p] = "get_rlock"
    /\ mu.writer = 0
    /\ mu' = [mu EXCEPT !.readers = @ \cup {p}]
    /\ pc' = [pc EXCEPT ![p] = "get_read"]
    /\ UNCHANGED <<boot, store, googleTokens, op, id, arg, token, newToken, req, result,
                   calls, hist, lastWriter, lastApplied>>
    /\ UNCHANGED web

\* Mutant of the guard: only a missing entry is unauthorized.
UnauthorizedNilOnly(t) == t = Nil

\* getGoogle's guard (line 344).
Unauthorized(t) == t = Nil \/ Deref(t).RefreshToken = ""

\* getGoogle: token := s.googleTokens[id]; s.mu.RUnlock(); the guard.
GetRead(p) ==
    /\ pc[p] = "get_read"
    /\ LET t == MapGet(googleTokens, id[p]) IN
       /\ token' = [token EXCEPT ![p] = t]
       /\ IF Unauthorized(t)
          THEN Return(p, errUnauthorized, Nil)
          ELSE pc' = [pc EXCEPT ![p] = "get_source"] /\ UNCHANGED result
    /\ mu' = [mu EXCEPT !.readers = @ \ {p}]
    /\ UNCHANGED <<boot, store, googleTokens, op, id, arg, newToken, req, calls, hist, lastWriter, lastApplied>>
    /\ UNCHANGED web

\* getGoogle from line 353 on, once newToken n is known: where the call goes next.
AccessDiffers(t, n) == Deref(t).AccessToken # Deref(n).AccessToken
RefreshDiffers(t, n) == Deref(t).RefreshToken # Deref(n).RefreshToken

\* getGoogle line 348: oauth2ConfigForURL builds the configuration for the
\* request, and TokenSource(ctx, token).Token() answers with the cached
\* token while it is valid (it has an access token and has not expired), and
\* otherwise calls the token endpoint.
GetTokenSource(p) ==
    /\ pc[p] = "get_source"
    /\ \/ /\ Deref(token[p]).AccessToken # ""
          /\ newToken' = [newToken EXCEPT ![p] = token[p]]
          /\ Return(p, NoErr, token[p])
          /\ UNCHANGED hist
       \/ /\ pc' = [pc EXCEPT ![p] = "exchange_wait"]
          /\ hist' = [hist EXCEPT ![p].exchange = @ + 1]
          /\ UNCHANGED <<newToken, result>>
    /\ \E r \in HttpRequests :
          googleConfig' = [googleConfig EXCEPT
                              !.tokens = oauth2ConfigForURL(googleConfig.tokens, r).cfg]
    /\ UNCHANGED <<boot, store, googleTokens, mu, op, id, arg, token, req, calls, lastWriter, lastApplied>>
    /\ UNCHANGED served

\* Mutant of ExchangeReply: a failed exchange drops the cache entry.
ExchangeReplyEvict(p) ==
    /\ pc[p] = "exchange_wait"
    /\ \/ /\ Return(p, ErrExchange, Nil) /\ UNCHANGED <<newToken, arg>>
          /\ googleTokens' = [j \in DOMAIN googleTokens \ {id[p]} |-> googleTokens[j]]
       \/ \E n \in ExchangedTokens :
            /\ newToken' = [newToken EXCEPT ![p] = Ptr(n)]
            /\ IF AccessDiffers(token[p], Ptr(n))
               THEN pc' = [pc EXCEPT ![p] = "get_lock"] /\ UNCHANGED <<result, arg>>
               ELSE IF RefreshDiffers(token[p], Ptr(n))
               THEN /\ pc' = [pc EXCEPT ![p] = "set_lock"]
                    /\ arg' = [arg EXCEPT ![p] = Ptr(n)]
                    /\ UNCHANGED result
               ELSE Return(p, NoErr, Ptr(n)) /\ UNCHANGED arg
            /\ UNCHANGED googleTokens
    /\ UNCHANGED <<boot, store, mu, op, id, token, req, calls, hist, lastWriter, lastApplied>>
    /\ UNCHANGED web

\* getGoogle lines 348-364: the token endpoint answers with an error or with
\* a token n.
ExchangeReply(p) ==
    /\ pc[p] = "exchange_wait"
    /\ \/ Return(p, ErrExchange, Nil) /\ UNCHANGED <<newToken, arg>>
       \/ \E n \in ExchangedTokens :
            /\ newToken' = [newToken EXCEPT ![p] = Ptr(n)]
            /\ IF AccessDiffers(token[p], Ptr(n))
               THEN pc' = [pc EXCEPT ![p] = "get_lock"] /\ UNCHANGED <<result, arg>>
               ELSE IF RefreshDiffers(token[p], Ptr(n))
               THEN /\ pc' = [pc EXCEPT ![p] = "set_lock"]
                    /\ arg' = [arg EXCEPT ![p] = Ptr(n)]
                    /\ UNCHANGED result
               ELSE Return(p, NoErr, Ptr(n)) /\ UNCHANGED arg
    /\ UNCHANGED <<boot, store, googleTokens, mu, op, id, token, req, calls, hist, lastWriter, lastApplied>>
    /\ UNCHANGED web

\* getGoogle: s.mu.Lock() (line 355)
GetLock(p) ==
    /\ pc[p] = "get_lock"
    /\ mu = Unlocked
    /\ mu' = [mu EXCEPT !.writer = p]
    /\ pc' = [pc EXCEPT ![p] = "get_write"]
    /\ UNCHANGED <<boot, store, googleTokens, op, id, arg, token, newToken, req, result,
                   calls, hist, lastWriter, lastApplied>>
    /\ UNCHANGED web

\* Mutant of GetWrite: the rotated refresh token is not handed to setGoogle.
GetWriteNoPersist(p) ==
    /\ pc[p] = "get_write"
    /\ googleTokens' = MapSet(googleTokens, id[p], newToken[p])
    /\ mu' = [mu EXCEPT !.writer = 0]
    /\ hist' = [hist EXCEPT ![p].cache = @ + 1]
    /\ lastWriter' = [lastWriter EXCEPT ![id[p]] = p]
    /\ UNCHANGED lastApplied
    /\ Return(p, NoErr, newToken[p])
    /\ UNCHANGED <<boot, store, op, id, arg, token, newToken, req, calls>>
    /\ UNCHANGED web

\* getGoogle: s.googleTokens[id] = newToken; s.mu.Unlock(); then line 359.
GetWrite(p) ==
    /\ pc[p] = "get_write"
    /\ googleTokens' = MapSet(googleTokens, id[p], newToken[p])
    /\ mu' = [mu EXCEPT !.writer = 0]
    /\ hist' = [hist EXCEPT ![p].cache = @ + 1]
    /\ lastWriter' = [lastWriter EXCEPT ![id[p]] = p]
    /\ UNCHANGED lastApplied
    /\ IF RefreshDiffers(token[p], newToken[p])
       THEN /\ pc' = [pc EXCEPT ![p] = "set_lock"]
            /\ arg' = [arg EXCEPT ![p] = newToken[p]]
            /\ UNCHANGED result
       ELSE Return(p, NoErr, newToken[p]) /\ UNCHANGED arg
    /\ UNCHANGED <<boot, store, op, id, token, newToken, req, calls>>
    /\ UNCHANGED web

\* The caller has the result; the worker is free for the next request.
Finish(p) ==
    /\ pc[p] = "done"
    /\ pc' = [pc EXCEPT ![p] = "idle"]
    /\ op' = [op EXCEPT ![p] = "none"]
    /\ id' = [id EXCEPT ![p] = NoId]
    /\ arg' = [arg EXCEPT ![p] = Nil]
    /\ token' = [token EXCEPT ![p] = Nil]
    /\ newToken' = [newToken EXCEPT ![p] = Nil]
    /\ result' = [result EXCEPT ![p] = NoResult]
    /\ hist' = [hist EXCEPT ![p] = NoHist]
    /\ lastWriter' = [i \in Ids |-> IF lastWriter[i] = p THEN 0 ELSE lastWriter[i]]
    /\ lastApplied' = [i \in Ids |-> IF lastApplied[i] = p THEN 0 ELSE lastApplied[i]]
    /\ UNCHANGED <<boot, store, googleTokens, mu, req, calls>>
    /\ UNCHANGED web

\* The server process stops (crash, kill, or the fatal exit of main) and is
\* started again: memory is lost, the index is kept.
Restart ==
    /\ phase \in {"serving", "fatal"}
    /\ restarts < MaxRestarts
    /\ restarts' = restarts + 1
    /\ phase' = "start"
    /\ googleTokens' = EmptyMap
    /\ mu' = Unlocked
    /\ initErr' = NoErr
    /\ searchOutcome' = "none"
    /\ pc' = [p \in Procs |-> "idle"]
    /\ op' = [p \in Procs |-> "none"]
    /\ id' = [p \in Procs |-> NoId]
    /\ arg' = [p \in Procs |-> Nil]
    /\ token' = [p \in Procs |-> Nil]
    /\ newToken' = [p \in Procs |-> Nil]
    /\ req' = [p \in Procs |-> << >>]
    /\ result' = [p \in Procs |-> NoResult]
    /\ calls' = calls
    /\ hist' = [p \in Procs |-> NoHist]
    /\ lastWriter' = [i \in Ids |-> 0]
    /\ lastApplied' = [i \in Ids |-> 0]
    /\ fresh' = TRUE
    /\ UNCHANGED <<client, store>>
    /\ UNCHANGED web

Next ==
    \/ newTokenStorage
    \/ Restart
    \/ \E p \in Procs :
         \/ \E i \in Ids, t \in ExchangedTokens : CallSet(p, i, t)
         \/ \E i \in Ids : CallGet(p, i)
         \/ SetLock(p) \/ SetWrite(p) \/ SetPut(p) \/ StoreApply(p) \/ PutReply(p)
         \/ GetRLock(p) \/ GetRead(p) \/ GetTokenSource(p) \/ ExchangeReply(p)
         \/ GetLock(p) \/ GetWrite(p)
         \/ Finish(p)

Spec == Init /\ [][Next]_vars


(***************************************************************************)
(* Part 2: secureCookies (src/backend/securecookies.go).                   *)
(*                                                                         *)
(* A string that travels in a cookie or a query parameter is a record:     *)
(* plain text, an OAuth state (the base64 of the JSON of a nonce and the    *)
(* additional data), or a token sealed by a securecookie codec, which       *)
(* carries the key and the timestamp it was sealed with and the string it   *)
(* holds.  A codec is known by its key: main builds it with                 *)
(* securecookie.New(hashKey, blockKey) and the NopEncoder serializer, so it *)
(* has securecookie's default limits (maxLength 4096, maxAge 30 days).      *)
(***************************************************************************)
Keys == {"k1", "k2"}
ForeignKey == "kx"     \* a key of no configuration (somebody else's)

\* The lists of encryption keys a deployment can be configured with.
KeyLists == UNION {[1..n -> Keys] : n \in 0..MaxKeys}

\* Defaults of securecookie.New: the longest encoded value, in bytes, and
\* the oldest accepted timestamp, in seconds (86400 * 30).
MaxLength == 4096
MaxAge == 2592000

RECURSIVE Repeat(_, _)
Repeat(text, n) ==
    IF n = 0 THEN ""
    ELSE IF n % 2 = 0 THEN LET half == Repeat(text, n \div 2) IN half \o half
    ELSE text \o Repeat(text, n - 1)

\* A value that no cookie can hold.
LongText == Repeat("x", MaxLength + 1)

\* Mutant of Unseal: the token is verified but not opened.
UnsealRaw(w) == [w EXCEPT !.key = NoKey, !.date = 0]

\* The token a codec with key k makes of the string v at time t, and the
\* string a token holds.
Seal(k, t, v) == [v EXCEPT !.kind = "sealed", !.key = k, !.date = t, !.inner = v.kind]
Unseal(w) == [w EXCEPT !.kind = w.inner, !.key = NoKey, !.date = 0, !.inner = ""]

\* Length of base64 with padding of n bytes.
B64Len(n) == 4 * ((n + 2) \div 3)

\* Length of the JSON of oauthStateData: {"nonce":"<base64 of 32 bytes>"},
\* and ,"data":{"k":"v",...} unless the map is empty (omitempty).
RECURSIVE PairsLen(_)
PairsLen(d) ==
    IF d = {} THEN 0
    ELSE LET e == CHOOSE x \in d : TRUE
         IN Len(e[1]) + Len(e[2]) + 6 + PairsLen(d \ {e})

StateJSONLen(d) == 10 + B64Len(32) + 2 + (IF d = {} THEN 0 ELSE 9 + PairsLen(d))

\* securecookie's encoding of n bytes: base64 of the 16-byte IV and the
\* AES-CTR ciphertext, then base64 of "timestamp|value|mac".
EncodedLen(n) == B64Len(10 + 1 + B64Len(16 + n) + 1 + 32)

\* len() of a string; an identity token of the provider has about a
\* kilobyte.
IDTokenLen == 1024

Size(v) ==
    LET PayloadSize(u) == IF u.kind = "state" THEN B64Len(StateJSONLen(u.data))
                          ELSE IF u.kind = "jwt" THEN IDTokenLen
                          ELSE Len(u.text)
    IN IF v.kind = "sealed" THEN EncodedLen(PayloadSize(Unseal(v))) ELSE PayloadSize(v)

ErrEncodedValueTooLong == "securecookie: the value is too long"
ErrValueToDecodeTooLong == "securecookie: the value is too long to decode"
ErrValueNotValid == "securecookie: the value is not valid"
ErrMacInvalid == "securecookie: the value is not valid (MAC)"
ErrTimestampExpired == "securecookie: expired timestamp"
ErrNoCodecs == "securecookie: no codecs provided"

\* Encode of one codec: serialize (NopEncoder), encrypt, MAC, check length.
codec_Encode(k, v, t) ==
    IF EncodedLen(Size(v)) > MaxLength
    THEN [out |-> EmptyString, err |-> ErrEncodedValueTooLong]
    ELSE [out |-> Seal(k, t, v), err |-> NoErr]

\* securecookie.EncodeMulti: the first codec that encodes wins; the error is
\* the MultiError of all codecs, known here by its first error.
RECURSIVE EncodeLoop(_, _, _, _)
EncodeLoop(v, t, codecs, errors) ==
    IF codecs = << >> THEN [out |-> EmptyString, err |-> errors[1]]
    ELSE LET r == codec_Encode(Head(codecs), v, t)
         IN IF r.err = NoErr THEN r
            ELSE EncodeLoop(v, t, Tail(codecs), Append(errors, r.err))

EncodeMulti(v, t, codecs) ==
    IF Len(codecs) = 0 THEN [out |-> EmptyString, err |-> ErrNoCodecs]
    ELSE EncodeLoop(v, t, codecs, << >>)

\* Mutant of Encode: the newest key is taken to be the last of the list.
secureCookies_EncodeLast(sc, v, t) ==
    IF Len(sc) = 0 THEN [out |-> v, err |-> NoErr]
    ELSE EncodeMulti(v, t, <<sc[Len(sc)]>>)

\* secureCookies.Encode
secureCookies_Encode(sc, v, t) ==
    IF Len(sc) = 0 THEN [out |-> v, err |-> NoErr]
    ELSE EncodeMulti(v, t, sc)

\* Mutant of Decode of one codec: the value is handed to dst before the MAC
\* and the timestamp are verified.
codec_DecodeEager(k, w, t, dst) ==
    IF Size(w) > MaxLength THEN [err |-> ErrValueToDecodeTooLong, dst |-> dst]
    ELSE IF w.kind # "sealed" THEN [err |-> ErrValueNotValid, dst |-> dst]
    ELSE IF w.key # k THEN [err |-> ErrMacInvalid, dst |-> <<Unseal(w)>>]
    ELSE IF w.date < t - MaxAge THEN [err |-> ErrTimestampExpired, dst |-> <<Unseal(w)>>]
    ELSE [err |-> NoErr, dst |-> <<Unseal(w)>>]

\* Decode of one codec: check length, decode base64, verify the MAC, verify
\* the timestamp, decrypt, deserialize into dst (NopEncoder: *dst = bytes).
\* dst is << >> while the []byte it points to is nil.
codec_Decode(k, w, t, dst) ==
    IF Size(w) > MaxLength THEN [err |-> ErrValueToDecodeTooLong, dst |-> dst]
    ELSE IF w.kind # "sealed" THEN [err |-> ErrValueNotValid, dst |-> dst]
    ELSE IF w.key # k THEN [err |-> ErrMacInvalid, dst |-> dst]
    ELSE IF w.date < t - MaxAge THEN [err |-> ErrTimestampExpired, dst |-> dst]
    ELSE [err |-> NoErr, dst |-> <<Unseal(w)>>]

\* securecookie.DecodeMulti: the first codec that decodes wins.
RECURSIVE DecodeLoop(_, _, _, _, _)
DecodeLoop(w, t, codecs, dst, errors) ==
    IF codecs = << >> THEN [err |-> errors[1], dst |-> dst]
    ELSE LET r == codec_Decode(Head(codecs), w, t, dst)
         IN IF r.err = NoErr THEN r
            ELSE DecodeLoop(w, t, Tail(codecs), r.dst, Append(errors, r.err))

DecodeMulti(w, t, dst, codecs) ==
    IF Len(codecs) = 0 THEN [err |-> ErrNoCodecs, dst |-> dst]
    ELSE DecodeLoop(w, t, codecs, dst, << >>)

\* Mutant of Decode: without the branch for an empty list.
secureCookies_DecodeStrict(sc, w, t) ==
    LET r == DecodeMulti(w, t, << >>, sc)
    IN [out |-> IF r.dst = << >> THEN EmptyString ELSE r.dst[1], err |-> r.err]

\* Mutant of Decode: only the first codec is tried.
secureCookies_DecodeFirst(sc, w, t) ==
    IF Len(sc) = 0 THEN [out |-> w, err |-> NoErr]
    ELSE LET r == DecodeMulti(w, t, << >>, <<sc[1]>>)
         IN [out |-> IF r.dst = << >> THEN EmptyString ELSE r.dst[1], err |-> r.err]

\* secureCookies.Decode: string(out) of a nil out is "".
secureCookies_Decode(sc, w, t) ==
    IF Len(sc) = 0 THEN [out |-> w, err |-> NoErr]
    ELSE LET r == DecodeMulti(w, t, << >>, sc)
         IN [out |-> IF r.dst = << >> THEN EmptyString ELSE r.dst[1], err |-> r.err]

(***************************************************************************)
(* The codec at work: the server is deployed with a list of keys, seals     *)
(* values and opens tokens for its callers, time passes, and it is          *)
(* deployed again with another list (key rotation).                         *)
(***************************************************************************)
\* The values callers ask Encode to seal.
Values == {EmptyString, Plain("abc"), Plain(LongText)}

\* What a client can send besides the tokens it was given: text, a token
\* sealed with a key of its own, an oversized string.
Forged(t) == {Plain("abc"), Seal(ForeignKey, t, Plain("abc")), Plain(LongText)}

\* Ticks of the clock so far: each tick is a second or MaxAge seconds.  The
\* callers have the result of the last call by then.
Elapsed(n) == (n \div MaxAge) + (n % MaxAge)

Tick(d) ==
    /\ Elapsed(now) < MaxTicks
    /\ now' = now + d
    /\ call' = NoCall
    /\ UNCHANGED <<vars, googleConfig, secureCookies, sealed, issued, exchange, validated,
                   request, response>>

\* An entry of encryption_keys in the configuration file: text that is
\* base64 or not, and the bytes it decodes to.
ConfiguredKey(k) == [base64 |-> TRUE, bytes |-> k, length |-> IF k = "k1" THEN 32 ELSE 64]
NotBase64 == [base64 |-> FALSE, bytes |-> NoKey, length |-> 0]
ShortKey == [base64 |-> TRUE, bytes |-> "short", length |-> 16]
EncryptionKeys == {ConfiguredKey(k) : k \in Keys} \cup {NotBase64, ShortKey}
Configurations == UNION {[1..n -> EncryptionKeys] : n \in 0..MaxKeys}

ErrKeyNotBase64 == "failed to base64-decode encryption key"
ErrKeyLength == "expected encryption key 32 or 64 bytes"

\* A variant of the loop that leaves out the keys it cannot use.
RECURSIVE BuildCodecsSkipping(_, _, _)
BuildCodecsSkipping(encryptionKeys, i, codecs) ==
    IF i > Len(encryptionKeys) THEN [nil |-> FALSE, codecs |-> codecs, err |-> NoErr]
    ELSE LET encodedKey == encryptionKeys[i] IN
         IF ~encodedKey.base64 \/ encodedKey.length \notin {32, 64}
         THEN BuildCodecsSkipping(encryptionKeys, i + 1, codecs)
         ELSE BuildCodecsSkipping(encryptionKeys, i + 1, Append(codecs, encodedKey.bytes))

\* The loop of newSecureCookies from key i on; codecs are the codecs built
\* so far.  The first key that is not base64 or has another length than 32
\* or 64 bytes ends it with nil and an error.
RECURSIVE BuildCodecs(_, _, _)
BuildCodecs(encryptionKeys, i, codecs) ==
    IF i > Len(encryptionKeys) THEN [nil |-> FALSE, codecs |-> codecs, err |-> NoErr]
    ELSE LET encodedKey == encryptionKeys[i] IN
         IF ~encodedKey.base64
         THEN [nil |-> TRUE, codecs |-> << >>, err |-> ErrKeyNotBase64]
         ELSE IF encodedKey.length # 32 /\ encodedKey.length # 64
         THEN [nil |-> TRUE, codecs |-> << >>, err |-> ErrKeyLength]
         ELSE BuildCodecs(encryptionKeys, i + 1, Append(codecs, encodedKey.bytes))

newSecureCookiesSkipping(encryptionKeys) == BuildCodecsSkipping(encryptionKeys, 1, << >>)

newSecureCookies(encryptionKeys) == BuildCodecs(encryptionKeys, 1, << >>)

\* main builds the codec list of a new process from the configured keys.
\* When newSecureCookies fails the process exits (logger.Fatal) before it
\* serves anything, and the codec list in service stays the one it was.
main_newSecureCookies(encryptionKeys) ==
    /\ LET r == newSecureCookies(encryptionKeys) IN
          /\ call' = [fn |-> "newSecureCookies", in |-> encryptionKeys, keys |-> r.codecs,
                      nil |-> r.nil, at |-> now, out |-> EmptyString, err |-> r.err]
          /\ secureCookies' = IF r.err = NoErr THEN r.codecs ELSE secureCookies
    /\ UNCHANGED <<vars, googleConfig, now, sealed, issued, exchange, validated,
                   request, response>>

EncodeCall(v) ==
    /\ Cardinality(sealed) < MaxSealed
    /\ LET r == secureCookies_Encode(secureCookies, v, now) IN
          /\ call' = [fn |-> "Encode", in |-> v, keys |-> secureCookies, at |-> now,
                      out |-> r.out, err |-> r.err]
          /\ sealed' = IF r.err = NoErr
                       THEN sealed \cup {[token |-> r.out, value |-> v, keys |-> secureCookies]}
                       ELSE sealed
    /\ UNCHANGED <<vars, googleConfig, secureCookies, now, issued, exchange, validated,
                   request, response>>

DecodeCall(w) ==
    /\ LET r == secureCookies_Decode(secureCookies, w, now) IN
          call' = [fn |-> "Decode", in |-> w, keys |-> secureCookies, at |-> now,
                   out |-> r.out, err |-> r.err]
    /\ UNCHANGED <<vars, googleConfig, secureCookies, now, sealed, issued, exchange, validated,
                   request, response>>

CodecInit ==
    /\ TokenIdle
    /\ secureCookies \in KeyLists
    /\ now = 0
    /\ sealed = {}
    /\ call = NoCall
    /\ issued = {}
    /\ exchange = NoExchange
    /\ validated = {}
    /\ request = NoRequest
    /\ response = NoResponse
    /\ googleConfig = StartConfig

CodecNext ==
    \/ \E d \in {1, MaxAge} : Tick(d)
    \/ \E encryptionKeys \in Configurations : main_newSecureCookies(encryptionKeys)
    \/ \E v \in Values : EncodeCall(v)
    \/ \E w \in {e.token : e \in sealed} \cup Forged(now) : DecodeCall(w)

CodecSpec == CodecInit /\ [][CodecNext]_web

(***************************************************************************)
(* Part 3: identity tokens (src/backend/auth.go, idTokenParser).           *)
(*                                                                         *)
(* An identity token is a string of kind "jwt"; data are its parts as       *)
(* <<name, type, value>>: a header entry has type "header", a claim the     *)
(* JSON type of its value (a JSON list has one entry of type "list" per     *)
(* element), and the signature names the key whose private half made it.    *)
(* jwt is github.com/golang-jwt/jwt/v4 and jwks the key set of              *)
(* github.com/MicahParks/keyfunc, as imported by auth.go.                   *)
(***************************************************************************)
\* The token with the entries, signed by key (NoKey: no valid signature),
\* with the exp claim exp in seconds (0: none).
IDToken(key, exp, entries) ==
    [kind |-> "jwt", key |-> NoKey, date |-> 0, inner |-> "", text |-> "",
     nonce |-> "",
     data |-> entries
                \cup (IF key = NoKey THEN {} ELSE {<<"signature", "key", key>>})
                \cup (IF exp = 0 THEN {} ELSE {<<"exp", "number", ToString(exp)>>})]

SigningMethodRS256 == "RS256"
Algorithms == {SigningMethodRS256, "none", "HS256", "ES256"}

\* The keys of the provider's key set, by key id; "old" is a key id that is
\* not in it.
googleJWKS == {"g1", "g2"}
KeyIDs == {"g1", "old"}
Signers == {"g1", ForeignKey, NoKey}


\* The exp claims of the tokens, in seconds; the clock of this part stands
\* at ParseTime.
ParseTime == 1
Expiries == {0, ParseTime, ParseTime + 1}

Audiences ==
    { {},
      {<<"aud", "string", googleClientID>>},
      {<<"aud", "string", "other-client">>},
      {<<"aud", "list", "other-client">>, <<"aud", "list", googleClientID>>},
      {<<"aud", "list", "other-client">>},
      {<<"aud", "number", "1">>} }

\* A claim that should be a string: absent, a string, or a number.
StringClaim(name, value) ==
    { {}, {<<name, "string", value>>}, {<<name, "number", "1">>} }

IDTokens ==
    { IDToken(key, exp,
              {<<"alg", "header", alg>>, <<"kid", "header", kid>>}
                  \cup aud \cup sub \cup email \cup name)
        : key \in Signers, exp \in Expiries, alg \in Algorithms, kid \in KeyIDs,
          aud \in Audiences, sub \in StringClaim("sub", "u1"),
          email \in StringClaim("email", "u1@example.com"),
          name \in {{}, {<<"name", "string", "Ann">>}} }

\* The values of the entries of the token with a name and one of the types.
Entries(idToken, name, types) ==
    {e[3] : e \in {x \in idToken.data : x[1] = name /\ x[2] \in types}}

Header(idToken, name) == Entries(idToken, name, {"header"})

\* The signature verifies with the key of the header's kid.
SignedByKeyID(idToken) ==
    Entries(idToken, "signature", {"key"}) = Header(idToken, "kid")

\* The exp claim is a time that t has reached.
Expired(idToken, t) ==
    \E e \in Entries(idToken, "exp", {"number"}) :
        ~(t < (CHOOSE n \in Expiries : ToString(n) = e))

\* claims[name].(string): the assertion holds when the claim is a string.
IsString(idToken, name) == Entries(idToken, name, {"string"}) # {}
StringOf(idToken, name) == CHOOSE v \in Entries(idToken, name, {"string"}) : TRUE
\* v, _ := claims[name].(string)
StringOrEmpty(idToken, name) ==
    IF IsString(idToken, name) THEN StringOf(idToken, name) ELSE ""

ErrTokenMalformed == "token contains an invalid number of segments"
ErrSigningMethod == "signing method is invalid"
ErrKIDNotFound == "the given key ID was not found in the JWKS"
ErrSignatureInvalid == "crypto/rsa: verification error"
ErrTokenExpired == "Token is expired"
ErrAudience == "audience invalid or missing"

\* A variant of jwt.Parse without the list of valid methods: it verifies a
\* token with the method its header names.
jwt_ParseAnyMethod(idToken, jwks, validMethods, t) ==
    IF idToken.kind # "jwt" THEN [valid |-> FALSE, read |-> {}, err |-> ErrTokenMalformed]
    ELSE IF Header(idToken, "kid") \cap jwks = {}
    THEN [valid |-> FALSE, read |-> {}, err |-> ErrKIDNotFound]
    ELSE IF ~SignedByKeyID(idToken)
    THEN [valid |-> FALSE, read |-> {"exp"}, err |-> ErrSignatureInvalid]
    ELSE IF Expired(idToken, t)
    THEN [valid |-> FALSE, read |-> {"exp"}, err |-> ErrTokenExpired]
    ELSE [valid |-> TRUE, read |-> {"exp"}, err |-> NoErr]

\* jwt.Parse(idToken, jwks.Keyfunc, jwt.WithValidMethods(validMethods)) at
\* time t: the header's alg must be one of the valid methods, jwks.Keyfunc
\* must find the key of the header's kid, the registered claims (exp) must
\* hold and the signature must verify with that key.  read are the claims
\* looked at.
jwt_Parse(idToken, jwks, validMethods, t) ==
    IF idToken.kind # "jwt" THEN [valid |-> FALSE, read |-> {}, err |-> ErrTokenMalformed]
    ELSE IF Header(idToken, "alg") \cap validMethods = {}
    THEN [valid |-> FALSE, read |-> {}, err |-> ErrSigningMethod]
    ELSE IF Header(idToken, "kid") \cap jwks = {}
    THEN [valid |-> FALSE, read |-> {}, err |-> ErrKIDNotFound]
    ELSE IF ~SignedByKeyID(idToken)
    THEN [valid |-> FALSE, read |-> {"exp"}, err |-> ErrSignatureInvalid]
    ELSE IF Expired(idToken, t)
    THEN [valid |-> FALSE, read |-> {"exp"}, err |-> ErrTokenExpired]
    ELSE [valid |-> TRUE, read |-> {"exp"}, err |-> NoErr]

\* jwt.MapClaims.VerifyAudience(cmp, required): the aud claim is a string or
\* a list of strings; one of them must be cmp.
VerifyAudience(idToken, cmp, required) ==
    LET aud == Entries(idToken, "aud", {"string", "list"}) IN
    IF aud = {} \/ aud = {""} THEN ~required ELSE cmp \in aud

\* *authDetails: nil, or the identity of a token.
NoDetails ==
    [nil |-> TRUE, idToken |-> EmptyString, userID |-> "", email |-> "", name |-> "",
     picture |-> ""]

\* A variant of idTokenParser that does not look at the audience.
idTokenParserAnyAudience(jwks, clientID, idToken, t) ==
    LET p == jwt_Parse(idToken, jwks, {SigningMethodRS256}, t) IN
    IF p.err # NoErr
    THEN [details |-> NoDetails, err |-> p.err, panic |-> FALSE, read |-> p.read]
    ELSE IF ~IsString(idToken, "sub")
    THEN [details |-> NoDetails, err |-> NoErr, panic |-> TRUE,
          read |-> p.read \cup {"picture", "name", "sub"}]
    ELSE IF ~IsString(idToken, "email")
    THEN [details |-> NoDetails, err |-> NoErr, panic |-> TRUE,
          read |-> p.read \cup {"picture", "name", "sub", "email"}]
    ELSE [details |-> [nil |-> FALSE, idToken |-> idToken,
                       userID |-> StringOf(idToken, "sub"),
                       email |-> StringOf(idToken, "email"),
                       name |-> StringOrEmpty(idToken, "name"),
                       picture |-> StringOrEmpty(idToken, "picture")],
          err |-> NoErr, panic |-> FALSE,
          read |-> p.read \cup {"picture", "name", "sub", "email"}]

\* The function idTokenParser(jwks, clientID) returns, applied to idToken at
\* time t.  claims["sub"].(string) and claims["email"].(string) are type
\* assertions without the ok result: they panic when the claim is absent or
\* is not a string, and the function returns nothing.
idTokenParser(jwks, clientID, idToken, t) ==
    LET p == jwt_Parse(idToken, jwks, {SigningMethodRS256}, t) IN
    IF p.err # NoErr
    THEN [details |-> NoDetails, err |-> p.err, panic |-> FALSE, read |-> p.read]
    ELSE IF ~VerifyAudience(idToken, clientID, TRUE)
    THEN [details |-> NoDetails, err |-> ErrAudience, panic |-> FALSE,
          read |-> p.read \cup {"aud"}]
    ELSE IF ~IsString(idToken, "sub")
    THEN [details |-> NoDetails, err |-> NoErr, panic |-> TRUE,
          read |-> p.read \cup {"aud", "picture", "name", "sub"}]
    ELSE IF ~IsString(idToken, "email")
    THEN [details |-> NoDetails, err |-> NoErr, panic |-> TRUE,
          read |-> p.read \cup {"aud", "picture", "name", "sub", "email"}]
    ELSE [details |-> [nil |-> FALSE, idToken |-> idToken,
                       userID |-> StringOf(idToken, "sub"),
                       email |-> StringOf(idToken, "email"),
                       name |-> StringOrEmpty(idToken, "name"),
                       picture |-> StringOrEmpty(idToken, "picture")],
          err |-> NoErr, panic |-> FALSE,
          read |-> p.read \cup {"aud", "picture", "name", "sub", "email"}]

\* parseIDToken of main.
parseIDToken(idToken, t) == idTokenParser(googleJWKS, googleClientID, idToken, t)

\* A caller hands a token to parseIDToken.
ParseCall(idToken) ==
    /\ request = NoRequest
    /\ LET r == parseIDToken(idToken, now) IN
          /\ request' = [route |-> "parseIDToken", idToken |-> idToken]
          /\ response' = [status |-> 0, details |-> r.details, err |-> r.err,
                          panic |-> r.panic, read |-> r.read]
    /\ UNCHANGED <<vars, googleConfig, secureCookies, now, sealed, call, issued, exchange, validated>>

\* The caller has its answer; the server takes the next request.
Served ==
    /\ request # NoRequest
    /\ request' = NoRequest
    /\ response' = NoResponse
    /\ UNCHANGED <<vars, googleConfig, secureCookies, now, sealed, call, issued, exchange, validated>>

ParseInit ==
    /\ TokenIdle
    /\ secureCookies = << >>
    /\ now = ParseTime
    /\ sealed = {}
    /\ call = NoCall
    /\ issued = {}
    /\ exchange = NoExchange
    /\ validated = {}
    /\ request = NoRequest
    /\ response = NoResponse
    /\ googleConfig = StartConfig

ParseNext ==
    \/ \E idToken \in IDTokens \cup {Plain("abc")} : ParseCall(idToken)
    \/ Served

ParseSpec == ParseInit /\ [][ParseNext]_web

(***************************************************************************)
(* Part 4: the OAuth state (src/backend/auth.go, generateOAuthState and     *)
(* validateOAuthState) and the callback that validates it                   *)
(* (src/backend/securecookies.go, GET /api/oauth/google).                   *)
(***************************************************************************)
\* rand.Read gives 32 bytes that no earlier call gave.
Nonces == {"n1", "n2"}

\* The additionalData callers pass to generateOAuthState.
AdditionalData ==
    {NilMap, MakeMap({}), MakeMap({<<"redirect", "/home">>}), MakeMap({<<"blob", LongText>>})}

googleStateCookieKey == "google_state"
CookieNames == {googleStateCookieKey, "oauth_state"}

errInvalidState == "invalid state"
ErrNoCookie == "http: named cookie not present"
ErrDecodeState == "failed to decode state"

\* base64.URLEncoding of json.Marshal(oauthStateData{Nonce, Data}): Data is
\* left out of the JSON when the map is nil or empty (omitempty).
StateString(nonce, additionalData) ==
    [kind |-> "state", key |-> NoKey, date |-> 0, inner |-> "", text |-> "",
     nonce |-> nonce, data |-> additionalData.pairs]

\* generateOAuthState with the nonce rand.Read gave, at time t: the state,
\* the cookie (<< >> is nil) and the error.
generateOAuthState(sc, cookieName, cookiePath, additionalData, nonce, t) ==
    LET state == StateString(nonce, additionalData)
        enc == secureCookies_Encode(sc, state, t)
    IN IF enc.err # NoErr
       THEN [state |-> EmptyString, cookie |-> << >>, err |-> enc.err]
       ELSE [state |-> state,
             cookie |-> <<[Name |-> cookieName, Path |-> cookiePath, Value |-> enc.out,
                           Secure |-> TRUE, HttpOnly |-> TRUE]>>,
             err |-> NoErr]

\* Plain texts that are valid base64 (of bytes that are no JSON object).
Base64Texts == {"", "YWJj"}

\* The end of validateOAuthState: base64-decode the state, unmarshal the
\* JSON, return Data; a state that is no JSON returns nil, nil.
DecodeStateData(state) ==
    IF state.kind = "state"
    THEN [data |-> IF state.data = {} THEN NilMap ELSE MakeMap(state.data), err |-> NoErr]
    ELSE IF state.kind = "sealed" \/ (state.kind = "plain" /\ state.text \in Base64Texts)
    THEN [data |-> NilMap, err |-> NoErr]
    ELSE [data |-> NilMap, err |-> ErrDecodeState]

\* r.Cookie(name) on a request that carries the cookies c (<< >>: none):
\* the first cookie of that name.
RequestCookie(c, name) ==
    LET named == {i \in 1..Len(c) : c[i].Name = name} IN
    IF named = {} THEN [value |-> EmptyString, err |-> ErrNoCookie]
    ELSE [value |-> c[CHOOSE i \in named : \A j \in named : i <= j].Value, err |-> NoErr]

\* Mutant of validateOAuthState: the state is not compared with the cookie.
validateOAuthStateNoCompare(sc, state, c, cookieName, t) ==
    LET stateCookie == RequestCookie(c, cookieName)
        expected == secureCookies_Decode(sc, stateCookie.value, t)
    IN IF stateCookie.err # NoErr THEN [data |-> NilMap, err |-> stateCookie.err]
       ELSE IF expected.err # NoErr THEN [data |-> NilMap, err |-> expected.err]
       ELSE DecodeStateData(state)

\* Mutant of validateOAuthState: every failure is errInvalidState.
validateOAuthStateOneError(sc, state, c, cookieName, t) ==
    LET stateCookie == RequestCookie(c, cookieName)
        expected == secureCookies_Decode(sc, stateCookie.value, t)
    IN IF stateCookie.err # NoErr THEN [data |-> NilMap, err |-> errInvalidState]
       ELSE IF expected.err # NoErr THEN [data |-> NilMap, err |-> errInvalidState]
       ELSE IF state # expected.out THEN [data |-> NilMap, err |-> errInvalidState]
       ELSE DecodeStateData(state)

\* Mutant of validateOAuthState: the additional data is not recovered.
validateOAuthStateNoData(sc, state, c, cookieName, t) ==
    LET stateCookie == RequestCookie(c, cookieName)
        expected == secureCookies_Decode(sc, stateCookie.value, t)
    IN IF stateCookie.err # NoErr THEN [data |-> NilMap, err |-> stateCookie.err]
       ELSE IF expected.err # NoErr THEN [data |-> NilMap, err |-> expected.err]
       ELSE IF state # expected.out THEN [data |-> NilMap, err |-> errInvalidState]
       ELSE [data |-> NilMap, err |-> NoErr]

\* validateOAuthState on a request with the query parameter state ("" when
\* it has none) and the cookie c, at time t.
validateOAuthState(sc, state, c, cookieName, t) ==
    LET stateCookie == RequestCookie(c, cookieName)
        expected == secureCookies_Decode(sc, stateCookie.value, t)
    IN IF stateCookie.err # NoErr THEN [data |-> NilMap, err |-> stateCookie.err]
       ELSE IF expected.err # NoErr THEN [data |-> NilMap, err |-> expected.err]
       ELSE IF state # expected.out THEN [data |-> NilMap, err |-> errInvalidState]
       ELSE DecodeStateData(state)

\* The path each caller sets its cookie for.
CookiePath(cookieName) == IF cookieName = googleStateCookieKey THEN "/" ELSE "/api/oauth"

\* A caller generates a state and, unless that failed, hands state and
\* cookie to the browser.  Which bytes rand.Read gives does not matter, only
\* that they are new.
Generate(cookieName, additionalData) ==
    /\ ~exchange.called
    /\ Nonces \ {g.state.nonce : g \in issued} # {}
    /\ LET nonce == CHOOSE n \in Nonces \ {g.state.nonce : g \in issued} : TRUE
           cookiePath == CookiePath(cookieName)
           r == generateOAuthState(secureCookies, cookieName, cookiePath, additionalData,
                                   nonce, now)
       IN /\ call' = [fn |-> "generateOAuthState", in |-> StateString(nonce, additionalData),
                      keys |-> secureCookies, at |-> now,
                      out |-> IF r.err = NoErr THEN r.cookie[1].Value ELSE EmptyString,
                      err |-> r.err]
          /\ issued' = IF r.err = NoErr
                       THEN issued \cup {[state |-> r.state, cookie |-> r.cookie[1],
                                          additionalData |-> additionalData,
                                          cookieName |-> cookieName,
                                          cookiePath |-> cookiePath]}
                       ELSE issued
    /\ UNCHANGED <<vars, googleConfig, secureCookies, now, sealed, exchange, validated,
                   request, response>>

StatusUnauthorized == 401
StatusInternalServerError == 500
StatusTemporaryRedirect == 307

\* What a browser or an attacker can send to the callback: the state
\* parameter is a state it was given, missing, or text of its own; the
\* cookie is missing or has a value it was given (a state cookie, a token
\* the server sealed for it, a state) or made itself.
QueryStates == {g.state : g \in issued} \cup {EmptyString, Plain("abc"), Plain("YWJj")}

CookieValues ==
    {g.cookie.Value : g \in issued} \cup {e.token : e \in sealed}
        \cup {g.state : g \in issued}
        \cup {Plain("abc"), Plain("YWJj"), Seal(ForeignKey, now, Plain("YWJj"))}

\* The browser sends a cookie under the name it was set with; what a client
\* makes up it sends under the name the callback reads.
Cookies ==
    {<< >>} \cup {<<[Name |-> g.cookie.Name, Value |-> g.cookie.Value]>> : g \in issued}
            \cup {<<[Name |-> googleStateCookieKey, Value |-> v]>> : v \in CookieValues}

\* The handler of GET /api/oauth/google behind the authentication wrapper:
\* 401 when validateOAuthState fails; otherwise the token exchange and
\* setGoogle decide between 401, 500 and the redirect.
Callback(state, c) ==
    /\ ~exchange.called
    /\ LET r == validateOAuthState(secureCookies, state, c, googleStateCookieKey, now)
           pair == [state |-> state, cookie |-> c]
       IN /\ \E status \in (IF r.err # NoErr THEN {StatusUnauthorized}
                            ELSE {StatusUnauthorized, StatusInternalServerError,
                                  StatusTemporaryRedirect}) :
                exchange' = [called |-> TRUE, state |-> state, cookie |-> c,
                             replay |-> pair \in validated,
                             data |-> r.data, err |-> r.err, status |-> status]
          /\ validated' = IF r.err = NoErr THEN {pair} ELSE validated
    /\ UNCHANGED <<vars, googleConfig, secureCookies, now, sealed, call, issued, request, response>>

\* The response is written; the server takes the next request.
Answered ==
    /\ exchange.called
    /\ exchange' = NoExchange
    /\ UNCHANGED <<vars, googleConfig, secureCookies, now, sealed, call, issued, validated,
                   request, response>>

(***************************************************************************)
(* Part 5: the HTTP routes (src/backend/securecookies.go, main) and their   *)
(* wrappers getAuthMiddleware (src/backend/auth.go) and basicAuthMiddleware. *)
(*                                                                         *)
(* A header value is a sequence of chunks of text; a chunk is a string      *)
(* without a space (a word, a token) or the chunk Space, one space.  A      *)
(* request is served in one step; the response says what was written and    *)
(* which calls the handler made (steps).                                    *)
(***************************************************************************)
Space == Plain(" ")
Bearer == Plain("Bearer")
Basic == Plain("Basic")

\* The string of a sequence of chunks.
ChunkText(chunk) ==
    IF chunk.kind = "plain" THEN chunk.text ELSE "<" \o chunk.kind \o ">"

RECURSIVE TextOf(_)
TextOf(chunks) ==
    IF chunks = << >> THEN "" ELSE ChunkText(Head(chunks)) \o TextOf(Tail(chunks))

Glue(chunks) == IF Len(chunks) = 1 THEN chunks[1] ELSE Plain(TextOf(chunks))

\* A variant of splitAuthHeader that splits at the last space.
splitAuthHeaderLast(header) ==
    LET spaces == {i \in 1..Len(header) : header[i] = Space} IN
    IF spaces = {} THEN <<header>>
    ELSE LET idx == CHOOSE i \in spaces : \A j \in spaces : j <= i
         IN <<SubSeq(header, 1, idx - 1), SubSeq(header, idx + 1, Len(header))>>

\* splitAuthHeader: idx is the index of the first space.
splitAuthHeader(header) ==
    LET spaces == {i \in 1..Len(header) : header[i] = Space} IN
    IF spaces = {} THEN <<header>>
    ELSE LET idx == CHOOSE i \in spaces : \A j \in spaces : i <= j
         IN <<SubSeq(header, 1, idx - 1), SubSeq(header, idx + 1, Len(header))>>

StatusOK == 200

\* What a handler has written and done; nothing yet.
NoSet == [called |-> FALSE, id |-> NoId, token |-> Nil]

Writer ==
    [status |-> 0, handler |-> FALSE, context |-> NoDetails, body |-> NoDetails,
     setCookie |-> << >>, header |-> {}, steps |-> << >>, fields |-> << >>,
     set |-> NoSet, err |-> NoErr, panic |-> FALSE, config |-> Nil]

\* http.Error(w, error, code) after the steps made.
Error(w, err, code, steps) == [w EXCEPT !.status = code, !.err = err, !.steps = steps]

\* A panic in a handler: net/http recovers it, logs it and closes the
\* connection; no response is written.
Panic(w, steps) == [w EXCEPT !.panic = TRUE, !.steps = steps]

\* The wrapper getAuthMiddleware returns, on a request with the cookies c at
\* time t, up to the call of the wrapped handler h: handler says whether h
\* is called, context is the value under authKey{} in h's request context.
getAuthMiddleware(sc, c, t) ==
    LET cookie == RequestCookie(c, "credentials")
        credentials == secureCookies_Decode(sc, cookie.value, t)
        parsed == parseIDToken(credentials.out, t)
    IN IF cookie.err # NoErr
       THEN Error(Writer, cookie.err, StatusUnauthorized, <<"Cookie">>)
       ELSE IF credentials.err # NoErr
       THEN Error(Writer, credentials.err, StatusUnauthorized, <<"Cookie", "Decode">>)
       ELSE IF parsed.panic
       THEN Panic(Writer, <<"Cookie", "Decode", "parseIDToken">>)
       ELSE IF parsed.err # NoErr
       THEN Error(Writer, parsed.err, StatusUnauthorized,
                  <<"Cookie", "Decode", "parseIDToken">>)
       ELSE [Writer EXCEPT !.handler = TRUE, !.context = parsed.details,
                           !.steps = <<"Cookie", "Decode", "parseIDToken">>]

\* The handler of GET /api/hello behind the wrapper: a greeting for the
\* identity of the context.
hello(sc, c, t) ==
    LET w == getAuthMiddleware(sc, c, t) IN
    IF ~w.handler THEN w
    ELSE [w EXCEPT !.status = StatusOK, !.body = w.context,
                   !.header = {<<"Content-Type", "application/json">>},
                   !.steps = w.steps \o <<"handler">>]

\* A variant of the callback that stores the token before it checks the
\* state.
oauthCallbackEager(sc, c, state, oauthToken, setErr, t) ==
    LET w == getAuthMiddleware(sc, c, t)
        auth == w.context
        v == validateOAuthState(sc, state, c, googleStateCookieKey, t)
    IN IF ~w.handler THEN w
       ELSE IF oauthToken = Nil
       THEN Error(w, ErrExchange, StatusUnauthorized, w.steps \o <<"handler", "Exchange">>)
       ELSE LET called == [w EXCEPT !.set = [called |-> TRUE, id |-> auth.userID,
                                              token |-> oauthToken]]
            IN IF setErr # NoErr
               THEN Error(called, setErr, StatusInternalServerError,
                          w.steps \o <<"handler", "Exchange", "setGoogle">>)
               ELSE IF v.err # NoErr
               THEN Error(called, "invalid authorization state", StatusUnauthorized,
                          w.steps \o <<"handler", "Exchange", "setGoogle",
                                       "validateOAuthState">>)
               ELSE [called EXCEPT !.status = StatusTemporaryRedirect,
                                   !.header = {<<"Location", "/">>},
                                   !.steps = w.steps \o <<"handler", "Exchange", "setGoogle",
                                                          "validateOAuthState", "Redirect">>]

\* GET /api/oauth/google: the wrapper, then validateOAuthState, the token
\* exchange with the provider, tokens.setGoogle for the user of the context
\* and the redirect.  oauthToken is what the provider answers (Nil: the exchange
\* fails) and setErr what setGoogle of part 1 returns.
oauthCallback(sc, c, state, oauthToken, setErr, t) ==
    LET w == getAuthMiddleware(sc, c, t)
        auth == w.context
        v == validateOAuthState(sc, state, c, googleStateCookieKey, t)
    IN IF ~w.handler THEN w
       ELSE IF v.err # NoErr
       THEN Error(w, "invalid authorization state", StatusUnauthorized,
                  w.steps \o <<"handler", "validateOAuthState">>)
       ELSE IF oauthToken = Nil
       THEN Error(w, ErrExchange, StatusUnauthorized,
                  w.steps \o <<"handler", "validateOAuthState", "Exchange">>)
       ELSE LET called == [w EXCEPT !.set = [called |-> TRUE, id |-> auth.userID,
                                              token |-> oauthToken]]
            IN IF setErr # NoErr
               THEN Error(called, setErr, StatusInternalServerError,
                          w.steps \o <<"handler", "validateOAuthState", "Exchange",
                                       "setGoogle">>)
               ELSE [called EXCEPT !.status = StatusTemporaryRedirect,
                                   !.header = {<<"Location", "/">>},
                                   !.steps = w.steps \o <<"handler", "validateOAuthState",
                                                          "Exchange", "setGoogle",
                                                          "Redirect">>]

\* The user names and passwords that texts of an Authorization header are
\* the base64 of; every other text is no base64 of "user:password".
BasicTexts ==
    { [text |-> "YWRtaW46czNjcmV0", username |-> "admin", password |-> "s3cret"],
      [text |-> "YWRtaW46d3Jvbmc=", username |-> "admin", password |-> "wrong"],
      [text |-> "Ym9iOnMzY3JldA==", username |-> "bob", password |-> "s3cret"],
      [text |-> "YWRtaW46", username |-> "admin", password |-> ""] }

\* r.BasicAuth(): the header is "Basic ", then the base64 of user:password.
BasicAuth(authHeader) ==
    LET rest == TextOf(SubSeq(authHeader, 3, Len(authHeader)))
        known == {b \in BasicTexts : b.text = rest}
    IN IF Len(authHeader) >= 2 /\ authHeader[1] = Basic /\ authHeader[2] = Space
          /\ known # {}
       THEN [username |-> (CHOOSE b \in known : TRUE).username,
             password |-> (CHOOSE b \in known : TRUE).password, ok |-> TRUE]
       ELSE [username |-> "", password |-> "", ok |-> FALSE]

AdminSecret == "s3cret"

\* A variant of basicAuthMiddleware that is content with Basic credentials
\* of any password.
basicAuthMiddlewareAnyPassword(secret, authHeader) ==
    LET auth == BasicAuth(authHeader) IN
    IF auth.ok
    THEN [Writer EXCEPT !.handler = TRUE, !.steps = <<"BasicAuth">>]
    ELSE [Error(Writer, "Unauthorized", StatusUnauthorized, <<"BasicAuth">>)
            EXCEPT !.header = {<<"WWW-Authenticate", "Basic realm=\"restricted\", charset=\"UTF-8\"">>}]

\* The wrapper basicAuthMiddleware(secret, h) returns, up to the call of h.
basicAuthMiddleware(secret, authHeader) ==
    LET auth == BasicAuth(authHeader) IN
    IF auth.ok /\ auth.password = secret
    THEN [Writer EXCEPT !.handler = TRUE, !.steps = <<"BasicAuth">>]
    ELSE [Error(Writer, "Unauthorized", StatusUnauthorized, <<"BasicAuth">>)
            EXCEPT !.header = {<<"WWW-Authenticate", "Basic realm=\"restricted\", charset=\"UTF-8\"">>}]

\* GET /api/admin/health behind basicAuthMiddleware(config.AdminSecret, h).
adminHealth(authHeader) ==
    LET w == basicAuthMiddleware(AdminSecret, authHeader) IN
    IF ~w.handler THEN w
    ELSE [w EXCEPT !.status = StatusOK,
                   !.header = {<<"Content-Type", "application/json">>},
                   !.steps = w.steps \o <<"handler">>]

\* The life of a credentials cookie, in seconds.
CredentialsLifetime == 7 * 24 * 3600

\* A variant of the cookie that scripts can read and that lives for a day.
credentialsCookieReadable(cookieValue, t) ==
    [Name |-> "credentials", Path |-> "", Value |-> cookieValue, Secure |-> TRUE,
     HttpOnly |-> FALSE, Expires |-> t + 24 * 3600]

\* The cookie GET /api/authenticate sets at time t.
credentialsCookie(cookieValue, t) ==
    [Name |-> "credentials", Path |-> "", Value |-> cookieValue, Secure |-> TRUE,
     HttpOnly |-> TRUE, Expires |-> t + CredentialsLifetime]

\* A variant of the check that accepts every scheme.
invalidAuthorizationAnyScheme(fields) == Len(fields) # 2

\* The check of the fields of the Authorization header (line 331).
invalidAuthorization(fields) == Len(fields) # 2 \/ fields[1] # <<Bearer>>

\* GET /api/authenticate on a request with the Authorization header
\* authHeader (<< >>: none) and the cookies c, at time t.
authenticate(sc, authHeader, c, t) ==
    IF authHeader # << >>
    THEN LET fields == splitAuthHeader(authHeader) IN
         IF invalidAuthorization(fields)
         THEN [Error(Writer, "invalid Authorization header", StatusUnauthorized,
                     <<"splitAuthHeader">>) EXCEPT !.fields = fields]
         ELSE LET credentials == Glue(fields[2])
                  cookieValue == secureCookies_Encode(sc, credentials, t)
                  parsed == parseIDToken(credentials, t)
                  w == [Writer EXCEPT !.fields = fields,
                           !.setCookie = <<credentialsCookie(cookieValue.out, t)>>]
              IN IF cookieValue.err # NoErr
                 THEN [Error(Writer, "failed to encode cookie", StatusInternalServerError,
                             <<"splitAuthHeader", "Encode">>) EXCEPT !.fields = fields]
                 ELSE IF parsed.panic
                 THEN Panic(w, <<"splitAuthHeader", "Encode", "SetCookie", "parseIDToken">>)
                 ELSE IF parsed.err # NoErr
                 THEN Error(w, parsed.err, StatusUnauthorized,
                            <<"splitAuthHeader", "Encode", "SetCookie", "parseIDToken">>)
                 ELSE [w EXCEPT !.status = StatusOK, !.body = parsed.details,
                                !.steps = <<"splitAuthHeader", "Encode", "SetCookie",
                                            "parseIDToken">>]
    ELSE LET cookie == RequestCookie(c, "credentials")
             credentials == secureCookies_Decode(sc, cookie.value, t)
             parsed == parseIDToken(credentials.out, t)
         IN IF cookie.err # NoErr
            THEN Error(Writer, cookie.err, StatusUnauthorized, <<"Cookie">>)
            ELSE IF credentials.err # NoErr
            THEN Error(Writer, credentials.err, StatusUnauthorized, <<"Cookie", "Decode">>)
            ELSE IF parsed.panic
            THEN Panic(Writer, <<"Cookie", "Decode", "parseIDToken">>)
            ELSE IF parsed.err # NoErr
            THEN Error(Writer, parsed.err, StatusUnauthorized,
                       <<"Cookie", "Decode", "parseIDToken">>)
            ELSE [Writer EXCEPT !.status = StatusOK, !.body = parsed.details,
                                !.steps = <<"Cookie", "Decode", "parseIDToken">>]

\* The server answers GET /api/authenticate.  The client keeps the cookie
\* of the response.
Authenticate(authHeader, c) ==
    /\ request = NoRequest /\ ~exchange.called
    /\ LET w == authenticate(secureCookies, authHeader, c, now) IN
          /\ request' = [route |-> "/api/authenticate", authorization |-> authHeader,
                         cookies |-> c, state |-> EmptyString, at |-> now]
          /\ response' = w
          /\ sealed' = IF w.setCookie = << >> THEN sealed
                       ELSE sealed \cup {[token |-> w.setCookie[1].Value,
                                          value |-> Glue(w.fields[2]),
                                          keys |-> secureCookies]}
    /\ UNCHANGED <<vars, googleConfig, secureCookies, now, call, issued, exchange, validated>>

\* The server answers GET /api/hello.
Hello(c) ==
    /\ request = NoRequest
    /\ request' = [route |-> "/api/hello", authorization |-> << >>, cookies |-> c,
                   state |-> EmptyString, at |-> now]
    /\ response' = hello(secureCookies, c, now)
    /\ UNCHANGED <<vars, googleConfig, secureCookies, now, sealed, call, issued, exchange, validated>>

\* What the callback handler wrote, with the call of oauth2ConfigForURL it
\* made when it came to the exchange (line 404).
withConfig(w, forURL) ==
    IF \E i \in 1..Len(w.steps) : w.steps[i] = "Exchange"
    THEN [w EXCEPT !.config = Ptr(forURL)]
    ELSE w

\* The server answers GET /api/oauth/google?state=... sent as the request r;
\* the exchange is made with the configuration oauth2ConfigForURL returns
\* for r, the provider answers it with oauthToken and setGoogle returns
\* setErr.
OAuthCallback(c, state, oauthToken, setErr, r) ==
    /\ request = NoRequest
    /\ request' = [route |-> "/api/oauth/google", authorization |-> << >>, cookies |-> c,
                   state |-> state, at |-> now, oauthToken |-> oauthToken,
                   setErr |-> setErr, url |-> r]
    /\ response' = withConfig(oauthCallback(secureCookies, c, state, oauthToken, setErr, now),
                              oauth2ConfigForURL(googleConfig.main, r))
    /\ googleConfig' = IF response'.config = Nil THEN googleConfig
                       ELSE [googleConfig EXCEPT !.main = Deref(response'.config).cfg]
    /\ UNCHANGED <<vars, secureCookies, now, sealed, call, issued, exchange, validated>>

\* The server answers GET /api/admin/health.
AdminHealth(authHeader, c) ==
    /\ request = NoRequest
    /\ request' = [route |-> "/api/admin/health", authorization |-> authHeader,
                   cookies |-> c, state |-> EmptyString, at |-> now]
    /\ response' = adminHealth(authHeader)
    /\ UNCHANGED <<vars, googleConfig, secureCookies, now, sealed, call, issued, exchange, validated>>

StateInit ==
    /\ TokenIdle
    /\ secureCookies \in {sc \in KeyLists : Len(sc) <= 1}
    /\ now = 0
    /\ sealed = {}
    /\ call = NoCall
    /\ issued = {}
    /\ exchange = NoExchange
    /\ validated = {}
    /\ request = NoRequest
    /\ response = NoResponse
    /\ googleConfig = StartConfig

\* The server generates states, seals for a client the state the client
\* sends as its bearer token, and answers callbacks.
StateNext ==
    \/ \E cookieName \in CookieNames, additionalData \in AdditionalData :
          Generate(cookieName, additionalData)
    \/ \E credentials \in {g.state : g \in issued} :
          /\ Cardinality(sealed) < MaxSealed
          /\ Authenticate(<<Bearer, Space, credentials>>, << >>)
    \/ Served
    \/ \E state \in QueryStates, c \in Cookies : Callback(state, c)
    \/ Answered

StateSpec == StateInit /\ [][StateNext]_web

(***************************************************************************)
(* The routes at work: clients send requests with headers and cookies of    *)
(* their choice and with the cookies the server has set for them.           *)
(***************************************************************************)
\* Identity tokens of the provider and of others.
UserToken(sub, aud) ==
    IDToken("g1", ParseTime + 1,
            {<<"alg", "header", SigningMethodRS256>>, <<"kid", "header", "g1">>,
             <<"aud", "string", aud>>, <<"email", "string", "u1@example.com">>,
             <<"name", "string", "Ann">>} \cup sub)

GoodToken == UserToken({<<"sub", "string", "u1">>}, googleClientID)
NoSubjectToken == UserToken({}, googleClientID)
OtherClientToken == UserToken({<<"sub", "string", "u1">>}, "other-client")

BearerTokens == {GoodToken, NoSubjectToken, OtherClientToken, Plain("YWJj")}

\* The Authorization headers of requests to /api/authenticate: the cases of
\* TestSplitAuthHeader, every header of up to MaxHeader chunks, and a bearer
\* token of every kind.
HeaderChunks == {Bearer, Space, Plain("YWJj")}

AuthHeaders ==
    UNION {[1..n -> HeaderChunks] : n \in 1..MaxHeader}
        \cup {<<Bearer, Space, v>> : v \in BearerTokens \cup {Plain(LongText)}}
        \cup {<<Basic, Space, Plain("auth")>>, <<Plain("NoSpace")>>,
              <<Plain("Multiple"), Space, Plain("Spaces"), Space, Plain("Here")>>}

BasicHeaders ==
    {<<Basic, Space, Plain(b.text)>> : b \in BasicTexts}
        \cup {<< >>, <<Basic>>, <<Basic, Space, Plain("bm9jb2xvbg==")>>,
              <<Bearer, Space, Plain("YWRtaW46czNjcmV0")>>}

\* The cookies a client can send: the value is one the server has set, or
\* one the client made.
Cookie(name, value) == [Name |-> name, Value |-> value]

CredentialJars ==
    {<< >>} \cup {<<Cookie("credentials", v)>> :
                    v \in BearerTokens \cup {e.token : e \in sealed}
                            \cup {Plain("abc"), Seal(ForeignKey, now, GoodToken)}}

StateJars ==
    {<< >>} \cup {<<Cookie(googleStateCookieKey, v)>> :
                    v \in {e.token : e \in sealed} \cup {Plain("abc"), Plain("YWJj")}}

HttpInit ==
    /\ TokenIdle
    /\ secureCookies \in {sc \in KeyLists : Len(sc) <= 1}
    /\ now = ParseTime
    /\ sealed = {}
    /\ call = NoCall
    /\ issued = {}
    /\ exchange = NoExchange
    /\ validated = {}
    /\ request = NoRequest
    /\ response = NoResponse
    /\ googleConfig = StartConfig

HttpNext ==
    \/ \E authHeader \in AuthHeaders, c \in {<< >>, <<Cookie("credentials", GoodToken)>>} :
          /\ Cardinality(sealed) < MaxCookies
          /\ Authenticate(authHeader, c)
    \/ \E c \in CredentialJars : Authenticate(<< >>, c)
    \/ \E c \in CredentialJars : Hello(c)
    \/ \E c \in CredentialJars, s \in StateJars, state \in {Plain("abc"), Plain("YWJj")},
          oauthToken \in {Nil, Ptr(Token("a1", "r1"))}, setErr \in {NoErr, ErrSaving} :
          OAuthCallback(c \o s, state, oauthToken, setErr, DirectRequest)
    \/ \E authHeader \in BasicHeaders,
          c \in {<< >>, <<Cookie("credentials", GoodToken)>>} :
          AdminHealth(authHeader, c)
    \/ Served

HttpSpec == HttpInit /\ [][HttpNext]_web


(***************************************************************************)
(* The consent flow of a client that follows the frontend: it presents     *)
(* only the cookies the server has set and the state values the server has *)
(* handed out.  The routes are those of main; none of them calls           *)
(* generateOAuthState, so issued stays as it is.                           *)
(***************************************************************************)
\* The identity tokens the provider gives the client to sign in with.
ProviderTokens == {GoodToken, OtherClientToken}

\* The cookies the server has set for the client.
ServerCredentialJars == {<< >>} \cup {<<Cookie("credentials", e.token)>> : e \in sealed}
ServerStateJars ==
    {<< >>} \cup {<<Cookie(googleStateCookieKey, g.cookie.Value)>> :
                    g \in {h \in issued : h.cookieName = googleStateCookieKey}}

\* authorizeGoogle: the state of the consent URL is the google_oauth_state
\* of the profile; the text "undefined" when the profile has none.
authorizeGoogle == {g.state : g \in issued} \cup {Plain("undefined")}

\* The callback of a consent that ends with setGoogle called and the redirect.
ConsentCompleted ==
    /\ request.route = "/api/oauth/google"
    /\ response.status = StatusTemporaryRedirect /\ response.set.called

HonestCallback ==
    \E c \in ServerCredentialJars, s \in ServerStateJars, state \in authorizeGoogle,
       oauthToken \in {Nil, Ptr(Token("a1", "r1"))}, setErr \in {NoErr, ErrSaving} :
       OAuthCallback(c \o s, state, oauthToken, setErr, DirectRequest)

HonestInit ==
    /\ TokenIdle
    /\ secureCookies \in {sc \in KeyLists : Len(sc) >= 1}
    /\ now = ParseTime
    /\ sealed = {}
    /\ call = NoCall
    /\ issued = {}
    /\ exchange = NoExchange
    /\ validated = {}
    /\ request = NoRequest
    /\ response = NoResponse
    /\ googleConfig = StartConfig

HonestNext ==
    \/ \E idToken \in ProviderTokens :
          /\ Cardinality(sealed) < MaxCookies
          /\ Authenticate(<<Bearer, Space, idToken>>, << >>)
    \/ \E c \in ServerCredentialJars : Authenticate(<< >>, c)
    \/ HonestCallback
    \/ Served

\* The client keeps trying: every request that stays possible is made, and a
\* consent that can complete again and again does complete.
HonestSpec ==
    /\ HonestInit /\ [][HonestNext]_web
    /\ WF_web(HonestNext)
    /\ SF_web(HonestCallback /\ ConsentCompleted')

(***************************************************************************)
(* The OAuth configuration at work: requests that arrive directly or       *)
(* through a proxy, with and without TLS, reach the two callers of         *)
(* oauth2ConfigForURL.  The server has no keys, so that the cookies of the *)
(* client are read as they are.                                            *)
(***************************************************************************)
\* getGoogle line 348, seen from the configuration: the call on the field
\* of tokens for the request r, and the configuration it returns.
getGoogle_oauth2ConfigForURL(r) ==
    /\ LET forURL == oauth2ConfigForURL(googleConfig.tokens, r) IN
          /\ call' = [fn |-> "oauth2ConfigForURL", in |-> r, out |-> forURL.copy]
          /\ googleConfig' = [googleConfig EXCEPT !.tokens = forURL.cfg]
    /\ UNCHANGED <<vars, secureCookies, now, sealed, issued, exchange, validated, request,
                   response>>

\* The cookies of a signed-in client that comes back from the provider.
ConsentJar == <<Cookie("credentials", GoodToken), Cookie(googleStateCookieKey, Plain("YWJj"))>>

ConfigInit ==
    /\ TokenIdle
    /\ secureCookies = << >>
    /\ now = ParseTime
    /\ sealed = {}
    /\ call = NoCall
    /\ issued = {}
    /\ exchange = NoExchange
    /\ validated = {}
    /\ request = NoRequest
    /\ response = NoResponse
    /\ googleConfig = StartConfig

ConfigNext ==
    \/ \E r \in HttpRequests : getGoogle_oauth2ConfigForURL(r)
    \/ \E r \in HttpRequests, c \in {ConsentJar, << >>},
          oauthToken \in {Nil, Ptr(Token("a1", "r1"))}, setErr \in {NoErr, ErrSaving} :
          OAuthCallback(c, Plain("YWJj"), oauthToken, setErr, r)
    \/ Served

ConfigSpec == ConfigInit /\ [][ConfigNext]_web

(***************************************************************************)
(* Claims about tokenStorage.                                              *)
(***************************************************************************)
Returned(p, o) == pc[p] = "done" /\ op[p] = o

\* C1: setGoogle called with a token whose refresh token is empty returns an
\* error and has not written the in-memory cache, with or without a client.
C1_SetEmptyRefreshRejected ==
    \A p \in Procs :
        (Returned(p, "set") /\ Deref(arg[p]).RefreshToken = "")
            => (result[p].err # NoErr /\ hist[p].cache = 0)

\* C2: while the process runs, a cache entry that holds a non-empty refresh
\* token is never replaced by a token whose refresh token is empty.
C2_RefreshTokenNeverDiscarded ==
    [][\A i \in DOMAIN googleTokens :
          (Deref(googleTokens[i]).RefreshToken # "" /\ phase' = "serving")
              => (i \in DOMAIN googleTokens' /\ Deref(googleTokens'[i]).RefreshToken # "")]_vars

\* C3: a getGoogle that read no cached token, or a cached token with an empty
\* refresh token, returned errUnauthorized, and made no token-endpoint call,
\* no cache write and no Update request.
C3_GetUnknownUnauthorized ==
    \A p \in Procs :
        (Returned(p, "get") /\ (token[p] = Nil \/ Deref(token[p]).RefreshToken = ""))
            => /\ result[p] = [err |-> errUnauthorized, token |-> Nil]
               /\ hist[p] = NoHist
               /\ req[p] = << >>

C3_Witness ==
    \E p \in Procs :
        /\ Returned(p, "get")
        /\ token[p] # Nil /\ Deref(token[p]).RefreshToken = ""
        /\ result[p].err = errUnauthorized

\* C4: after an init whose Search failed (store unreachable) or was answered
\* with an error status, newTokenStorage returned no error and the server
\* runs; until setGoogle is first called the cache is empty and every
\* getGoogle that returns fails as unauthorized.
C4_InitStoreUnavailable ==
    searchOutcome \in {"unreachable", "error_status"}
        => /\ phase = "serving" /\ initErr = NoErr
           /\ fresh => /\ googleTokens = EmptyMap
                          /\ \A p \in Procs :
                                Returned(p, "get") => result[p].err = errUnauthorized

C4_Witness ==
    \E p \in Procs :
        /\ searchOutcome = "unreachable"
        /\ fresh /\ Returned(p, "get")
        /\ id[p] \in DOMAIN store /\ DocRefreshToken(store[id[p]]) # ""
        /\ result[p].err = errUnauthorized

\* C5: whatever the persistent store does at startup (absent, unreachable,
\* error status, undecodable response body), newTokenStorage returns no error
\* and the process is never stopped by it.
C5_StorageNeverFatal == phase # "fatal" /\ initErr = NoErr

\* C6: a worker that has a token-endpoint call or an Update request in
\* progress does not hold the mutex (the lock is only held at the map
\* accesses), and an Update request is in flight only after the in-memory
\* write of its setGoogle was made and unlocked, so that readers see it.
C6_NoLockAcrossNetwork ==
    /\ \A p \in Procs :
          pc[p] \in {"exchange_wait", "put_wait"} => (mu.writer # p /\ p \notin mu.readers)
    /\ mu.writer # 0 => pc[mu.writer] \in {"set_write", "get_write"}
    /\ \A p \in mu.readers : pc[p] = "get_read"
    /\ \A p \in Procs :
          pc[p] = "put_wait"
              => /\ hist[p].cache >= 1
                 /\ lastWriter[id[p]] = p => MapGet(googleTokens, id[p]) = arg[p]

C6_Witness ==
    \E p, q \in Procs :
        /\ pc[p] = "put_wait" /\ pc[q] = "get_read" /\ id[p] = id[q]
        /\ MapGet(googleTokens, id[p]) = arg[p]

\* C7: a setGoogle(id, t), t with a refresh token, that returned a
\* persistent-write error left the cache mapping id to t (unless another call
\* wrote the entry since), and without a client setGoogle(id, t) returns nil
\* with the cache mapping id to t.
C7_SetKeepsMemoryWrite ==
    \A p \in Procs :
        (Returned(p, "set") /\ Deref(arg[p]).RefreshToken # "")
            => /\ hist[p].cache = 1
               /\ result[p].err \in StoreErrors \cup {NoErr}
               /\ lastWriter[id[p]] = p => MapGet(googleTokens, id[p]) = arg[p]
               /\ ~client => result[p].err = NoErr
               /\ result[p].err \in StoreErrors => (client /\ hist[p].upsert = 1)

C7_Witness ==
    \E p \in Procs :
        /\ Returned(p, "set") /\ Deref(arg[p]).RefreshToken # ""
        /\ result[p].err \in StoreErrors
        /\ MapGet(googleTokens, id[p]) = arg[p]

\* The token-endpoint call of a getGoogle succeeded with newToken.
Refreshed(p) == Returned(p, "get") /\ hist[p].exchange = 1 /\ newToken[p] # Nil

\* C8 as stated, for an n that carries a refresh token: after a getGoogle
\* whose exchange succeeded with n, the cache entry is n if the access or the
\* refresh token differs, n's refresh token was upserted if the refresh token
\* differs, nothing was written if neither differs, and getGoogle returned n.
C8_GetReturnsNewToken ==
    \A p \in Procs :
        (Refreshed(p) /\ Deref(newToken[p]).RefreshToken # "")
            => LET ad == AccessDiffers(token[p], newToken[p])
                   rd == RefreshDiffers(token[p], newToken[p])
               IN /\ ((ad \/ rd) /\ lastWriter[id[p]] = p)
                        => MapGet(googleTokens, id[p]) = newToken[p]
                  /\ (rd /\ client) => hist[p].upsert = 1
                  /\ (~ad /\ ~rd) => (hist[p].cache = 0 /\ hist[p].upsert = 0)
                  /\ result[p] = [err |-> NoErr, token |-> newToken[p]]

\* C8 amended: as above, but the Update is sent only with a client and for a
\* non-empty refresh token of n, and getGoogle returns n unless the setGoogle
\* it ran returned an error (empty refresh token of n, or the persistent
\* write failed): then it returns that error and no token, the cache entry
\* still being n.
C8_GetRefreshes ==
    \A p \in Procs :
        Refreshed(p)
            => LET n == Deref(newToken[p])
                   ad == AccessDiffers(token[p], newToken[p])
                   rd == RefreshDiffers(token[p], newToken[p])
                   sent == rd /\ client /\ n.RefreshToken # ""
               IN /\ hist[p].cache = (IF ad THEN 1 ELSE 0) + (IF rd THEN 1 ELSE 0)
                  /\ ((ad \/ rd) /\ lastWriter[id[p]] = p)
                        => MapGet(googleTokens, id[p]) = newToken[p]
                  /\ hist[p].upsert = IF sent THEN 1 ELSE 0
                  /\ IF rd /\ client /\ n.RefreshToken = ""
                     THEN result[p] = [err |-> ErrEmptyRefresh, token |-> Nil]
                     ELSE \/ result[p] = [err |-> NoErr, token |-> newToken[p]]
                          \/ /\ sent
                             /\ result[p].err \in StoreErrors
                             /\ result[p].token = Nil

C8_Witness ==
    \E p \in Procs :
        /\ Refreshed(p)
        /\ AccessDiffers(token[p], newToken[p]) /\ RefreshDiffers(token[p], newToken[p])
        /\ Deref(token[p]).AccessToken # ""
        /\ result[p] = [err |-> NoErr, token |-> newToken[p]]
        /\ MapGet(googleTokens, id[p]) = newToken[p]
        /\ id[p] \in DOMAIN store
        /\ DocRefreshToken(store[id[p]]) = Deref(newToken[p]).RefreshToken

\* C9: no Update request carries an empty refresh token, and every document
\* of the index with a "google" object holds a non-empty refresh token.
C9_NoEmptyRefreshPersisted ==
    /\ \A p \in Procs :
          req[p] # << >> => req[p][1].body.doc["google"].refresh_token # ""
    /\ \A i \in DOMAIN store :
          "google" \in DOMAIN store[i] => store[i]["google"].refresh_token # ""

C9_Witness ==
    /\ \E i \in DOMAIN store : "google" \in DOMAIN store[i]
    /\ \E p \in Procs : pc[p] = "done" /\ result[p].err = ErrEmptyRefresh

\* C10: every Update request is addressed to the document whose id is the
\* subject id of the call and its partial document holds, under "google",
\* exactly the refresh token of the call's token and an issue time: no access
\* token reaches the index.
TokenFields == {"issued_at", "refresh_token"}

C10_OnlyRefreshTokenPersisted ==
    /\ \A p \in Procs :
          req[p] # << >>
              => LET r == req[p][1] IN
                 /\ r.index = "app-sessions" /\ r.id = id[p]
                 /\ r.body.doc_as_upsert
                 /\ DOMAIN r.body.doc = {"google"}
                 /\ DOMAIN r.body.doc["google"] = TokenFields
                 /\ r.body.doc["google"].refresh_token = Deref(arg[p]).RefreshToken
                 /\ r.body.doc["google"].issued_at \in Times
    /\ \A i \in DOMAIN store :
          "google" \in DOMAIN store[i]
              => /\ DOMAIN store[i]["google"] = TokenFields
                 /\ store[i]["google"].refresh_token \in RefreshTokens
                 /\ store[i]["google"].issued_at \in Times

C10_Witness ==
    \E p \in Procs :
        /\ req[p] # << >> /\ req[p][1].applied /\ id[p] = "u2"
        /\ Deref(arg[p]).AccessToken # ""
        /\ store["u2"]["google"].refresh_token = Deref(arg[p]).RefreshToken

\* C11: refresh tokens survive a restart.  (a) When setGoogle(id, t) with a
\* non-empty refresh token has returned nil with a client, the index holds a
\* document for id with a non-empty refresh token, and it is t's unless the
\* Update of another call was applied after this one's.  (b) When init reads
\* the index successfully (at most SearchSize documents), the new cache holds
\* for every document with a refresh token an entry with that refresh token,
\* which getGoogle's guard accepts, and holds no entry for a document without
\* a refresh token.
SetPersisted(p) ==
    (/\ Returned(p, "set") /\ client /\ result[p].err = NoErr
     /\ Deref(arg[p]).RefreshToken # "")
        => /\ id[p] \in DOMAIN store
           /\ DocRefreshToken(store[id[p]]) # ""
           /\ lastApplied[id[p]] = p
                  => DocRefreshToken(store[id[p]]) = Deref(arg[p]).RefreshToken

InitLoaded ==
    (/\ phase = "start" /\ searchOutcome' = "ok"
     /\ Cardinality(DOMAIN store) <= SearchSize)
        => /\ phase' = "serving"
           /\ \A i \in Ids :
                 IF i \in DOMAIN store /\ DocRefreshToken(store[i]) # ""
                 THEN /\ i \in DOMAIN googleTokens'
                      /\ googleTokens'[i] # Nil
                      /\ Deref(googleTokens'[i]).RefreshToken = DocRefreshToken(store[i])
                 ELSE i \notin DOMAIN googleTokens'

C11_RefreshTokenSurvivesRestart ==
    [][(\A p \in Procs : SetPersisted(p))' /\ InitLoaded]_vars

\* A token a call saved is served from the cache after a restart.
C11_Witness ==
    /\ restarts = 1 /\ searchOutcome = "ok"
    /\ \E p \in Procs :
          /\ Returned(p, "get") /\ result[p].err # errUnauthorized
          /\ id[p] \in DOMAIN store /\ "google" \in DOMAIN store[id[p]]
          /\ store[id[p]]["google"].issued_at >= 1
          /\ token[p] # Nil
          /\ Deref(token[p]).RefreshToken = DocRefreshToken(store[id[p]])

(***************************************************************************)
(* Claims about secureCookies.                                             *)
(***************************************************************************)
Range(f) == {f[i] : i \in DOMAIN f}

Decoded(e) == call.fn = "Decode" /\ call.in = e.token

C18_ZeroKeysIdentity ==
    (call.fn \in {"Encode", "Decode"} /\ call.keys = << >>)
        => call.err = NoErr /\ call.out = call.in

C18_Witness ==
    /\ call.fn = "Decode" /\ call.keys = << >>
    /\ call.in = Plain("abc") /\ call.out = Plain("abc")
    /\ \E e \in sealed : e.token = Plain("abc") /\ e.keys = << >>

\* A codec with key k accepts the token w at time t.
Verifies(k, w, t) ==
    /\ w.kind = "sealed" /\ w.key = k
    /\ t - w.date <= MaxAge
    /\ Size(w) <= MaxLength

C20_DecodeAllOrNothing ==
    (call.fn = "Decode" /\ call.err # NoErr) => call.out = EmptyString

C20_Witness ==
    /\ call.fn = "Decode" /\ call.err # NoErr
    /\ Len(call.keys) = MaxKeys /\ call.in.kind = "sealed"
    /\ call.in.text = "abc" /\ call.out = EmptyString

(***************************************************************************)
(* Claims about the OAuth state.                                           *)
(***************************************************************************)
\* The cookie a browser sends back for the pair g.
CookieOf(g) == <<[Name |-> g.cookie.Name, Value |-> g.cookie.Value]>>

\* The request carries a cookie of the name the callback reads whose value
\* the codec decodes to v.
Carries(c, v) ==
    /\ c # << >> /\ c[1].Name = googleStateCookieKey
    /\ secureCookies_Decode(secureCookies, c[1].Value, now).err = NoErr
    /\ secureCookies_Decode(secureCookies, c[1].Value, now).out = v

Accepted == exchange.called /\ exchange.err = NoErr
Rejected == exchange.called /\ exchange.err # NoErr

C13_InvalidStateOnlyOnMismatch ==
    exchange.called =>
        LET stateCookie == RequestCookie(exchange.cookie, googleStateCookieKey)
            expected == secureCookies_Decode(secureCookies, stateCookie.value, now)
        IN /\ exchange.err = errInvalidState
                <=> (/\ stateCookie.err = NoErr /\ expected.err = NoErr
                     /\ expected.out # exchange.state)
           /\ stateCookie.err # NoErr => exchange.err = ErrNoCookie
           /\ (stateCookie.err = NoErr /\ expected.err # NoErr)
                 => exchange.err = expected.err /\ exchange.err # errInvalidState
           /\ exchange.err # NoErr => exchange.status = StatusUnauthorized

\* A sealed cookie of one pair arrives with the state of another pair.
C13_Witness ==
    /\ exchange.called /\ exchange.err = errInvalidState
    /\ exchange.status = StatusUnauthorized
    /\ Len(secureCookies) >= 1
    /\ \E g \in issued, h \in issued :
          g # h /\ exchange.cookie = CookieOf(g) /\ exchange.state = h.state

C15_StateSingleUse ==
    (exchange.called /\ exchange.replay) => exchange.err # NoErr

(***************************************************************************)
(* Claims about newSecureCookies (CodecSpec).                              *)
(***************************************************************************)
Usable(encodedKey) == encodedKey.base64 /\ encodedKey.length \in {32, 64}

\* C21: newSecureCookies fails fast: when a configured key is not base64 or
\* does not decode to 32 or 64 bytes it returns an error and nil, never a
\* partly built list; otherwise it returns no error and one codec per key,
\* in the order of the configuration.
C21_KeysAllOrNothing ==
    call.fn = "newSecureCookies" =>
        LET encryptionKeys == call.in IN
        IF \E i \in 1..Len(encryptionKeys) : ~Usable(encryptionKeys[i])
        THEN call.err # NoErr /\ call.nil /\ call.keys = << >>
        ELSE /\ call.err = NoErr /\ ~call.nil
             /\ Len(call.keys) = Len(encryptionKeys)
             /\ \A i \in 1..Len(encryptionKeys) :
                   call.keys[i] = encryptionKeys[i].bytes
             /\ secureCookies = call.keys

C21_Witness ==
    /\ call.fn = "newSecureCookies"
    /\ Len(call.in) = 2
    /\ Usable(call.in[1]) /\ ~Usable(call.in[2])
    /\ call.nil /\ call.err = ErrKeyLength

(***************************************************************************)
(* Claims about idTokenParser (ParseSpec).                                 *)
(***************************************************************************)
Parsed == request.route = "parseIDToken"

\* The token was signed with RS256 by the key of the provider's key set that
\* its header names, and has not expired.
SignatureVerifies(idToken, t) ==
    /\ idToken.kind = "jwt"
    /\ Header(idToken, "alg") = {SigningMethodRS256}
    /\ Header(idToken, "kid") \cap googleJWKS # {}
    /\ Entries(idToken, "signature", {"key"}) = Header(idToken, "kid")
    /\ \A e \in Entries(idToken, "exp", {"number"}) : e = ToString(ParseTime + 1)

Rejects == response.err # NoErr /\ response.details.nil /\ ~response.panic

C24_MissingSubjectIsAnError ==
    (/\ Parsed /\ SignatureVerifies(request.idToken, now)
     /\ VerifyAudience(request.idToken, googleClientID, TRUE)
     /\ ~IsString(request.idToken, "sub") \/ ~IsString(request.idToken, "email"))
        => Rejects

\* C25: parseIDToken returns an identity only for a token signed with RS256
\* and verified against a key of the provider's key set; a token of any
\* other algorithm is rejected before a claim is read.
C25_OnlyRS256 ==
    Parsed =>
        /\ ~response.details.nil => SignatureVerifies(request.idToken, now)
        /\ (/\ request.idToken.kind = "jwt"
            /\ Header(request.idToken, "alg") # {SigningMethodRS256})
              => Rejects /\ response.read = {}

C25_Witness ==
    /\ Parsed /\ Header(request.idToken, "alg") = {"HS256"}
    /\ Header(request.idToken, "kid") = {"g1"}
    /\ Entries(request.idToken, "signature", {"key"}) = {"g1"}
    /\ VerifyAudience(request.idToken, googleClientID, TRUE)
    /\ IsString(request.idToken, "sub") /\ IsString(request.idToken, "email")
    /\ response.err = ErrSigningMethod /\ response.read = {}

(***************************************************************************)
(* Claims about the routes and their wrappers (HttpSpec, StateSpec).        *)
(***************************************************************************)
Route(route) == request.route = route

\* The routes behind getAuthMiddleware.
Wrapped == Route("/api/hello") \/ Route("/api/oauth/google")

\* What the wrapper has to find in the request: the credentials cookie, the
\* token the codec decodes it to, and what parseIDToken makes of the token.
SessionCookie == RequestCookie(request.cookies, "credentials")
SessionToken == secureCookies_Decode(secureCookies, SessionCookie.value, request.at)
SessionIdentity == parseIDToken(SessionToken.out, request.at)

SessionVerified ==
    /\ SessionCookie.err = NoErr /\ SessionToken.err = NoErr
    /\ SessionIdentity.err = NoErr /\ ~SessionIdentity.details.nil

\* C22: getAuthMiddleware calls the wrapped handler if and only if the
\* request has a credentials cookie, the codec decodes it and parseIDToken
\* accepts the decoded token; otherwise it answers 401 and does not call the
\* handler; the context of a handler that runs holds the identity that
\* parseIDToken returned.
C22_HandlerIffSessionVerified ==
    Wrapped =>
        /\ response.handler <=> SessionVerified
        /\ ~SessionVerified => response.status = StatusUnauthorized /\ ~response.handler
        /\ response.handler => response.context = SessionIdentity.details

\* C26: basicAuthMiddleware calls the wrapped handler if and only if the
\* request has HTTP Basic credentials whose password is the configured
\* secret; otherwise it answers 401 with a WWW-Authenticate header and does
\* not call the handler; the credentials cookie plays no part.
C26_BasicAuthOnly ==
    Route("/api/admin/health") =>
        LET authorized ==
                \E b \in BasicTexts :
                    /\ request.authorization = <<Basic, Space, Plain(b.text)>>
                    /\ b.password = AdminSecret
        IN /\ response.handler <=> authorized
           /\ ~authorized =>
                 /\ response.status = StatusUnauthorized
                 /\ \E h \in response.header : h[1] = "WWW-Authenticate"

C26_Witness ==
    /\ Route("/api/admin/health") /\ request.cookies = << >>
    /\ request.authorization = <<Basic, Space, Plain("Ym9iOnMzY3JldA==")>>
    /\ response.handler /\ response.status = StatusOK

\* The step the handler of the request made last.
LastStep == IF response.steps = << >> THEN "" ELSE response.steps[Len(response.steps)]

\* C27: when the token exchange of the OAuth callback fails, the status of
\* the response is 5xx.
C27_ExchangeFailureIs5xx ==
    (/\ Route("/api/oauth/google") /\ LastStep = "Exchange"
     /\ request.oauthToken = Nil)
        => response.status \in 500..599

\* The place of a step among the steps of the response (0: not made).
StepAt(step) ==
    IF \E i \in 1..Len(response.steps) : response.steps[i] = step
    THEN CHOOSE i \in 1..Len(response.steps) : response.steps[i] = step
    ELSE 0

Made(step) == StepAt(step) > 0

\* C28: in the OAuth callback the exchange is made only after the session
\* cookie was verified and validateOAuthState succeeded; setGoogle is called
\* only after the exchange succeeded, and for the user of the verified
\* identity; the redirect is sent only after setGoogle succeeded.
C28_CallbackStepsGated ==
    Route("/api/oauth/google") =>
        /\ Made("Exchange") =>
              /\ SessionVerified
              /\ validateOAuthState(secureCookies, request.state, request.cookies,
                                    googleStateCookieKey, request.at).err = NoErr
              /\ 0 < StepAt("parseIDToken")
              /\ StepAt("parseIDToken") < StepAt("validateOAuthState")
              /\ StepAt("validateOAuthState") < StepAt("Exchange")
        /\ (Made("setGoogle") \/ response.set.called) =>
              /\ Made("Exchange") /\ StepAt("Exchange") < StepAt("setGoogle")
              /\ request.oauthToken # Nil
              /\ response.set = [called |-> TRUE, id |-> SessionIdentity.details.userID,
                                 token |-> request.oauthToken]
        /\ (Made("Redirect") \/ response.status = StatusTemporaryRedirect) =>
              /\ Made("setGoogle") /\ StepAt("setGoogle") < StepAt("Redirect")
              /\ request.setErr = NoErr

C28_Witness ==
    /\ Route("/api/oauth/google") /\ Len(secureCookies) = 1
    /\ response.status = StatusTemporaryRedirect
    /\ response.set = [called |-> TRUE, id |-> "u1", token |-> Ptr(Token("a1", "r1"))]
    /\ response.steps = <<"Cookie", "Decode", "parseIDToken", "handler",
                          "validateOAuthState", "Exchange", "setGoogle", "Redirect">>

\* The value the codec of the server seals v to at time t.
SealedValue(v, t) == IF secureCookies = << >> THEN v ELSE Seal(secureCookies[1], t, v)

\* C29: a credentials cookie the server sets is Secure and HttpOnly, expires
\* 7 days after it was set and holds the sealed bearer token; a state cookie
\* generateOAuthState builds is Secure and HttpOnly, has the name and the
\* path of the caller, no expiry of its own, and holds the sealed state.
C29_CookieAttributes ==
    /\ (Route("/api/authenticate") /\ response.setCookie # << >>) =>
          LET cookie == response.setCookie[1] IN
          /\ Len(response.setCookie) = 1
          /\ cookie.Name = "credentials" /\ cookie.Secure /\ cookie.HttpOnly
          /\ cookie.Expires = request.at + 7 * 24 * 60 * 60
          /\ cookie.Value = SealedValue(Glue(SubSeq(request.authorization, 3,
                                                    Len(request.authorization))),
                                        request.at)
    /\ \A g \in issued :
          /\ g.cookie.Secure /\ g.cookie.HttpOnly
          /\ g.cookie.Name = g.cookieName /\ g.cookie.Path = g.cookiePath
          /\ "Expires" \notin DOMAIN g.cookie
          /\ g.cookie.Value = SealedValue(g.state, g.cookie.Value.date)

C29_Witness ==
    /\ Len(secureCookies) = 1
    /\ Route("/api/authenticate") /\ response.setCookie # << >>
    /\ response.setCookie[1].Value.kind = "sealed"
    /\ \E g \in issued : g.cookieName = "oauth_state" /\ g.cookie.Value.kind = "sealed"

\* C30: splitAuthHeader returns the header itself, as the only element, when
\* the header has no space; otherwise two elements, the text before the
\* first space and all the text after it, so that joining the elements with
\* a space gives the header.
C30_SplitAtFirstSpace ==
    (Route("/api/authenticate") /\ request.authorization # << >>) =>
        LET header == request.authorization
            fields == response.fields
        IN IF \A i \in 1..Len(header) : header[i] # Space
           THEN fields = <<header>>
           ELSE /\ Len(fields) = 2
                /\ \A i \in 1..Len(fields[1]) : fields[1][i] # Space
                /\ fields[1] \o <<Space>> \o fields[2] = header

C30_Witness ==
    /\ Route("/api/authenticate")
    /\ request.authorization =
           <<Plain("Multiple"), Space, Plain("Spaces"), Space, Plain("Here")>>
    /\ response.fields = << <<Plain("Multiple")>>, <<Plain("Spaces"), Space, Plain("Here")>> >>

(***************************************************************************)
(* Claims about concurrent calls of the token storage (Spec).              *)
(***************************************************************************)
\* No call is in progress: every worker is free or has returned.
Quiescent == \A p \in Procs : pc[p] \in {"idle", "done"}

\* The refresh token the cache holds for i, and the one the index holds.
CachedRefreshToken(i) ==
    IF MapGet(googleTokens, i) = Nil THEN "" ELSE Deref(MapGet(googleTokens, i)).RefreshToken
StoredRefreshToken(i) == IF i \in DOMAIN store THEN DocRefreshToken(store[i]) ELSE ""

\* Every worker has returned from a call for i, each without an error and
\* at least one of them after a persistent write: every Update that was sent
\* was applied and answered with success.
AllReturnedFor(i) ==
    /\ client /\ phase = "serving"
    /\ \A p \in Procs : pc[p] = "done" /\ id[p] = i /\ result[p].err = NoErr
    /\ \E p \in Procs : hist[p].upsert > 0

\* C31: under any interleaving of concurrent setGoogle and getGoogle calls
\* for one id in which every persistent write succeeds, once no call is in
\* progress the refresh token the index holds for the id is the refresh
\* token of the cache entry.
C31_CacheStoreAgreeAtQuiescence ==
    \A i \in Ids :
        (Quiescent /\ AllReturnedFor(i)) => StoredRefreshToken(i) = CachedRefreshToken(i)


\* Worker p, serving getGoogle, writes the cache in this step (line 356, or
\* line 303 of the setGoogle it runs).
GetWritesCache(p) == op[p] = "get" /\ hist'[p].cache = hist[p].cache + 1

\* C32: when getGoogle(id) read the cached token T0 and setGoogle(id, T1),
\* T1 a grant with another refresh token, completed before getGoogle writes
\* its result, getGoogle does not replace the entry T1 by the token it
\* obtained from T0: the entry stays T1.
C32_RefreshKeepsNewerGrant ==
    [][\A p, q \in Procs :
          (/\ GetWritesCache(p)
           /\ Returned(q, "set") /\ id[q] = id[p] /\ result[q].err = NoErr
           /\ RefreshDiffers(token[p], arg[q])
           /\ MapGet(googleTokens, id[p]) = arg[q])
          => MapGet(googleTokens', id[p]) = arg[q]]_vars

\* C36: when the token exchange inside getGoogle fails, getGoogle returns
\* that error and no token, and the call has changed neither the cache nor
\* the index: it wrote nothing before the exchange and writes nothing now.
C36_FailedExchangeChangesNothing ==
    [][\A p \in Procs :
          (/\ pc[p] = "exchange_wait" /\ pc'[p] # "exchange_wait"
           /\ op'[p] = "get" /\ newToken'[p] = Nil)
          => /\ pc'[p] = "done"
             /\ result'[p] = [err |-> ErrExchange, token |-> Nil]
             /\ googleTokens' = googleTokens /\ store' = store
             /\ hist'[p].cache = 0 /\ hist'[p].upsert = 0 /\ req'[p] = << >>]_vars

C36_Witness ==
    \E p \in Procs :
        /\ Returned(p, "get") /\ result[p] = [err |-> ErrExchange, token |-> Nil]
        /\ client /\ MapGet(googleTokens, id[p]) = token[p]
        /\ StoredRefreshToken(id[p]) = Deref(token[p]).RefreshToken

(***************************************************************************)
(* Claims about /api/authenticate and the consent flow (HttpSpec).         *)
(***************************************************************************)
\* What parseIDToken says about the bearer token of the request.
BearerParsed == parseIDToken(Glue(response.fields[2]), request.at)

\* C33: /api/authenticate sets the credentials cookie only for a bearer
\* token parseIDToken accepts: a response that sets the cookie does not have
\* status 401, and the token sealed into the cookie was not rejected.
C33_CookieOnlyForAcceptedToken ==
    (Route("/api/authenticate") /\ response.setCookie # << >>) =>
        /\ response.status # StatusUnauthorized
        /\ ~BearerParsed.panic /\ BearerParsed.err = NoErr

\* The header is `Bearer <token>`: the scheme Bearer, a space, and the rest
\* of the header as the token.
BearerForm(header) == Len(header) >= 2 /\ header[1] = Bearer /\ header[2] = Space

\* The credential the handler chooses: the bearer token of the header when
\* the request has the header, the decoded credentials cookie otherwise.
ChosenCredential ==
    IF request.authorization # << >>
    THEN [out |-> Glue(SubSeq(request.authorization, 3, Len(request.authorization))),
          err |-> IF BearerForm(request.authorization) THEN NoErr
                  ELSE "invalid Authorization header"]
    ELSE IF SessionCookie.err # NoErr THEN [out |-> EmptyString, err |-> SessionCookie.err]
    ELSE [out |-> SessionToken.out, err |-> SessionToken.err]

\* parseIDToken accepts the chosen credential.
ChosenAccepted ==
    /\ ChosenCredential.err = NoErr
    /\ LET parsed == parseIDToken(ChosenCredential.out, request.at) IN
          ~parsed.panic /\ parsed.err = NoErr

C34_ConsentFlowCompletes == <>ConsentCompleted

\* What the routes allow instead: no callback of such a client completes.
HonestConsentNeverCompletes == ~ConsentCompleted

(***************************************************************************)
(* Claims about the OAuth configuration (ConfigSpec).                      *)
(***************************************************************************)
\* The absolute redirect URL for the request r: the host of X-Forwarded-Host
\* if set, else the Host; the scheme of X-Forwarded-Proto if set, else https
\* with TLS, else http.
AbsoluteURL(r) ==
    (IF r.XForwardedProto # "" THEN r.XForwardedProto
     ELSE IF r.TLS THEN "https" ELSE "http")
        \o "://"
        \o (IF r.XForwardedHost # "" THEN r.XForwardedHost ELSE r.Host)
        \o "/api/oauth/google"

\* C37: oauth2ConfigForURL never changes the configuration it is given:
\* after any number of getGoogle and callback requests the RedirectURL of
\* the configuration of tokens (and of main) is still /api/oauth/google.
\* Only the configuration it returns carries the absolute URL of the
\* request, and is otherwise the configuration it was given.
C37_SharedConfigUnchanged ==
    /\ googleConfig.tokens.RedirectURL = "/api/oauth/google"
    /\ googleConfig = StartConfig
    /\ call.fn = "oauth2ConfigForURL" =>
          call.out = [StartConfig.tokens EXCEPT !.RedirectURL = AbsoluteURL(call.in)]
    /\ (Route("/api/oauth/google") /\ response.config # Nil) =>
          Deref(response.config).copy =
              [StartConfig.main EXCEPT !.RedirectURL = AbsoluteURL(request.url)]

C37_Witness ==
    /\ call.fn = "oauth2ConfigForURL"
    /\ call.in = [Host |-> "app.internal", XForwardedHost |-> "app.example.com",
                  XForwardedProto |-> "", TLS |-> TRUE]
    /\ call.out.RedirectURL = "https://app.example.com/api/oauth/google"
    /\ Route("/api/oauth/google") /\ response.status = StatusTemporaryRedirect
    /\ request.url = [Host |-> "app.internal", XForwardedHost |-> "",
                      XForwardedProto |-> "http", TLS |-> TRUE]
    /\ Deref(response.config).copy.RedirectURL = "http://app.internal/api/oauth/google"

=============================================================================
